---- MODULE Spec2Model ----
(***************************************************************************)
(* A model of actions-mn/setup: the idempotency manager, the main and      *)
(* post handlers of the action, the version store singleton, the YAML      *)
(* metadata fetcher and the installer strategies.                          *)
(***************************************************************************)
EXTENDS Integers, Sequences, FiniteSets, TLC

VARIABLES
    machine,     \* the machine the workspace lives on
    pc,          \* position of the action's process: idle, inputs, check, ...
    stateFile,   \* content of <workspace>/.metanorma-setup-state.json
    savedBy,     \* history: fingerprint of the run that wrote stateFile
    config,      \* IIdempotencyConfig of the IdempotencyManager in use
    storeInst,   \* VersionDataStore.instance of the running process
    fetches,     \* metadata fetches issued by the running process
    settings,    \* IMetanormaSettings of the running handler
    toolFound,   \* history: what the PATH probes of this run answer
    decision,    \* IdempotencyResult of this run
    installer,   \* strategy created by InstallerFactory.createInstaller
    cmds,        \* commands executed by the strategy, in order
    installEnv,  \* history: what the environment answered during install
    failed,      \* setFailed was called
    outputs,     \* setOutputs values
    req,         \* fetchAllVersions: the request of each platform file
    fetchResult, \* fetchAllVersions: what it returned
    instance,    \* VersionDataStore.instance, as an object identity
    objs,        \* the VersionDataStore objects constructed, with their flags
    call,        \* each getInstance() call: where it stands
    result,      \* each getInstance() call: what it returned
    storeFetches,\* fetchAllVersions calls issued by initialize()
    initFailed,  \* history: a getInstance() call has failed to initialize
    proc,        \* the Node process of a provider call: platform, arch, libc
    platforms,   \* the artifacts getPlatforms(version) returns, in order
    bestMatch,   \* what getBestMatch(version) returned
    disk,        \* the Gemfile files a gem strategy finds and leaves
    gem,         \* what setupGemfile and installGems of a call did
    bin,         \* a BinaryInstaller.install call: its inputs and its outcome
    tool,        \* the tool cache and what install did from getBestMatch on
    prov,        \* a version provider: the document fetched, the table built
    sub,         \* the subprocesses an install has run, and whether it threw
    post,        \* history: what the last post-action process did
    ctr,         \* a detectContainer() call: what its probes answer, its result
    prior        \* history: how the last finished main phase ended

runVars == <<machine, pc, stateFile, savedBy, config, storeInst, fetches, settings,
             toolFound, decision, installer, cmds, installEnv, failed, outputs>>

fetchVars == <<req, fetchResult>>

storeVars == <<instance, objs, call, result, storeFetches, initFailed>>

providerVars == <<proc, platforms, bestMatch>>

gemVars == <<disk, gem>>

\* the state of the components called on their own
moreVars == <<tool, prov, sub, post, ctr, prior>>

unitVars == <<providerVars, gemVars, bin, moreVars>>

-----------------------------------------------------------------------------
(* JavaScript values *)

Null == "<null>"
Undefined == "<undefined>"

\* String.prototype.startsWith on strings held as sequences of characters
StartsWith(s, prefix) ==
    /\ Len(prefix) <= Len(s)
    /\ SubSeq(s, 1, Len(prefix)) = prefix

\* (x || 'true').toUpperCase() === 'TRUE'
IsTrueText(s) == s \in {"true", "TRUE", "True"}

\* (x || 'true').toUpperCase() !== 'FALSE' is the negation of this
IsFalseText(s) == s \in {"false", "FALSE", "False"}

-----------------------------------------------------------------------------
(* platform-detector.ts *)

Platforms == {"darwin", "linux", "win32"}

\* detectPlatform throws for any other process.platform
DetectPlatformThrows(processPlatform) == processPlatform \notin Platforms

-----------------------------------------------------------------------------
(* container-detector.ts: the result of detectContainer, and the method    *)

NoContainerInfo ==
    [present |-> FALSE, isContainer |-> FALSE, type |-> "none",
     hasRuby |-> FALSE, hasMetanorma |-> FALSE, distribution |-> "unknown"]

\* detectContainer(): host is what the probes find on the machine
DetectContainer(host) ==
    [present |-> TRUE,
     isContainer |-> host.containerType # "none",
     type |-> host.containerType,
     hasRuby |-> host.hasRuby,
     hasMetanorma |-> host.hasMetanorma,
     distribution |-> IF host.platform = "linux" THEN host.distribution
                      ELSE "unknown"]

\* toLowerCase of the installation-method input, over the inputs modelled
ToLowerCase(s) ==
    CASE s = "Native" -> "native"
      [] s = "GEM" -> "gem"
      [] OTHER -> s

GetInstallationMethod(userPreference, host) ==
    LET preference == ToLowerCase(userPreference) IN
    IF preference = "native" THEN "native"
    ELSE IF preference = "gem" THEN "gem"
    ELSE IF DetectContainer(host).isContainer THEN "gem"
    ELSE "native"

-----------------------------------------------------------------------------
(* input-helper.ts: getInputs *)

\* strings matching SEMVER_REGEX among the version inputs modelled
SemverStrings == {"1.12.0", "1.13.9", "1.14.3"}

IsValidVersion(version) == version \in SemverStrings

ValidChannels == {"stable", "edge", "beta", "candidate"}

GetInputsThrows(raw, host) ==
    \/ raw.version # "" /\ ~IsValidVersion(raw.version)
    \/ (IF raw.snapChannel = "" THEN "stable" ELSE raw.snapChannel)
           \notin ValidChannels
    \/ DetectPlatformThrows(host.platform)

GetInputs(raw, host) ==
    [version |-> IF raw.version = "" THEN Null ELSE raw.version,
     snapChannel |-> IF raw.snapChannel = "" THEN "stable" ELSE raw.snapChannel,
     chocoPrerelease |->
         IsTrueText(IF raw.chocoPrerelase = "" THEN "false"
                    ELSE raw.chocoPrerelase),
     platform |-> host.platform,
     installPath |-> IF host.workspace = <<>> THEN <<"/">> ELSE host.workspace,
     installationMethod |-> GetInstallationMethod(
         IF raw.installationMethod = "" THEN "auto"
         ELSE raw.installationMethod, host),
     bundlerVersion |-> IF raw.bundlerVersion = "" THEN "2.6.5"
                        ELSE raw.bundlerVersion,
     gemfile |-> IF raw.gemfile = "" THEN Undefined ELSE raw.gemfile,
     fontistUpdate |->
         IsTrueText(IF raw.fontistUpdate = "" THEN "true"
                    ELSE raw.fontistUpdate),
     bundleUpdate |->
         IsTrueText(IF raw.bundleUpdate = "" THEN "false"
                    ELSE raw.bundleUpdate),
     usePrebuiltLocks |->
         ~IsFalseText(IF raw.usePrebuiltLocks = "" THEN "true"
                      ELSE raw.usePrebuiltLocks),
     containerInfo |-> IF host.platform = "linux" THEN DetectContainer(host)
                       ELSE NoContainerInfo]

NoSettings ==
    [version |-> Null, snapChannel |-> "", chocoPrerelease |-> FALSE,
     platform |-> "", installPath |-> <<>>, installationMethod |-> "",
     bundlerVersion |-> "", gemfile |-> Undefined,
     fontistUpdate |-> FALSE, bundleUpdate |-> FALSE,
     usePrebuiltLocks |-> FALSE, containerInfo |-> NoContainerInfo]

-----------------------------------------------------------------------------
(* idempotency/types.ts and idempotency/idempotency-manager.ts *)

DEFAULT_IDEMPOTENCY_CONFIG == [enabled |-> TRUE, reinstallOnConfigChange |-> TRUE]

BoolText(b) == IF b THEN "true" ELSE "false"

\* variant: checksumData without the snapChannel key
SortedChecksumJsonNoChannel(s) ==
    <<  <<"bundlerVersion",
          IF s.bundlerVersion = "" THEN "2.6.5" ELSE s.bundlerVersion>>,
        <<"chocoPrerelease", BoolText(s.chocoPrerelease)>> >>
    \o (IF s.gemfile = Undefined THEN <<>> ELSE << <<"gemfile", s.gemfile>> >>)
    \o << <<"installationMethod", s.installationMethod>>,
          <<"platform", s.platform>>,
          <<"version", IF s.version = Null THEN "" ELSE s.version>> >>

\* JSON.stringify of checksumData with its keys sorted; a key whose value
\* is undefined is left out by JSON.stringify
SortedChecksumJson(s) ==
    <<  <<"bundlerVersion",
          IF s.bundlerVersion = "" THEN "2.6.5" ELSE s.bundlerVersion>>,
        <<"chocoPrerelease", BoolText(s.chocoPrerelease)>> >>
    \o (IF s.gemfile = Undefined THEN <<>> ELSE << <<"gemfile", s.gemfile>> >>)
    \o << <<"installationMethod", s.installationMethod>>,
          <<"platform", s.platform>>,
          <<"snapChannel", s.snapChannel>>,
          <<"version", IF s.version = Null THEN "" ELSE s.version>> >>

\* crypto md5 hex digest: 32 hex characters, taken to be free of collisions
Md5Hex(content) == [type |-> "string", len |-> 32, of |-> content]

CalculateChecksum(s) == Md5Hex(SortedChecksumJson(s))

AbsentFile ==
    [kind |-> "absent", platform |-> Undefined,
     installationMethod |-> Undefined, version |-> Null,
     installPath |-> <<>>, hasInstallPath |-> FALSE,
     checksum |-> [type |-> "undefined", len |-> 0, of |-> <<>>]]

\* the file saveInstallationState writes (installedAt and metanormaVersion
\* are written too; no decision reads them)
SavedFile(s) ==
    [kind |-> "object", platform |-> s.platform,
     installationMethod |-> s.installationMethod, version |-> s.version,
     installPath |-> s.installPath, hasInstallPath |-> TRUE,
     checksum |-> CalculateChecksum(s)]

\* variant: the checksum may have any length
ValidateStateAnyLength(state) ==
    /\ state.platform \notin {Undefined, Null}
    /\ state.installationMethod \notin {Undefined, Null}
    /\ state.checksum.type \notin {"undefined", "null"}
    /\ state.checksum.type = "string"

ValidateState(state) ==
    /\ state.platform \notin {Undefined, Null}
    /\ state.installationMethod \notin {Undefined, Null}
    /\ state.checksum.type \notin {"undefined", "null"}
    /\ state.checksum.type = "string"
    /\ state.checksum.len = 32

\* loadInstallationState: TRUE when it returns a state, FALSE when null;
\* a file that is no JSON, or whose JSON is null, ends in the catch branch
LoadInstallationState(file) ==
    /\ file.kind = "object"
    /\ ValidateState(file)

\* variant: one path must be a proper prefix of the other
PathsRelatedStrict(s, state) ==
    /\ s.installPath # state.installPath
    /\ \/ StartsWith(s.installPath, state.installPath)
       \/ StartsWith(state.installPath, s.installPath)

PathsRelated(s, state) ==
    \/ StartsWith(s.installPath, state.installPath)
    \/ StartsWith(state.installPath, s.installPath)

\* state.installPath.startsWith(...) on a state without installPath is a
\* TypeError, which no handler of the manager catches
CheckEnvironmentThrows(s, state) ==
    /\ state.platform = s.platform
    /\ state.installationMethod = s.installationMethod
    /\ ~state.hasInstallPath

CheckEnvironmentMatch(s, state) ==
    /\ state.platform = s.platform
    /\ state.installationMethod = s.installationMethod
    /\ PathsRelated(s, state)

\* checkMetanormaAvailable: command -v, then which; a probe that throws
\* counts as not found
CheckMetanormaAvailable(probe) == probe.commandV = "0" \/ probe.which = "0"

Result(skip, reason, warned, version) ==
    [shouldSkip |-> skip, reason |-> reason, threw |-> FALSE,
     warned |-> warned, installedVersion |-> version]

NoDecision == Result(FALSE, "none", FALSE, Null)

\* variant: a changed checksum never ends in a skip
CheckAndSkipAlwaysReinstall(cfg, file, s, probe) ==
    IF ~cfg.enabled THEN Result(FALSE, "not_installed", FALSE, Null)
    ELSE IF ~LoadInstallationState(file)
    THEN Result(FALSE, "not_installed", FALSE, Null)
    ELSE IF CheckEnvironmentThrows(s, file)
    THEN [Result(FALSE, "error", FALSE, Null) EXCEPT !.threw = TRUE]
    ELSE IF ~CheckEnvironmentMatch(s, file)
    THEN Result(FALSE, "configuration_changed", FALSE, Null)
    ELSE LET changed == CalculateChecksum(s) # file.checksum IN
         IF changed
         THEN Result(FALSE, "configuration_changed",
                     ~cfg.reinstallOnConfigChange, Null)
         ELSE IF ~CheckMetanormaAvailable(probe)
         THEN Result(FALSE, "not_installed", changed, Null)
         ELSE Result(TRUE, "already_installed", changed, probe.version)

CheckAndSkipIfAlreadyInstalled(cfg, file, s, probe) ==
    IF ~cfg.enabled THEN Result(FALSE, "not_installed", FALSE, Null)
    ELSE IF ~LoadInstallationState(file)
    THEN Result(FALSE, "not_installed", FALSE, Null)
    ELSE IF CheckEnvironmentThrows(s, file)
    THEN [Result(FALSE, "error", FALSE, Null) EXCEPT !.threw = TRUE]
    ELSE IF ~CheckEnvironmentMatch(s, file)
    THEN Result(FALSE, "configuration_changed", FALSE, Null)
    ELSE LET changed == CalculateChecksum(s) # file.checksum IN
         IF changed /\ cfg.reinstallOnConfigChange
         THEN Result(FALSE, "configuration_changed", FALSE, Null)
         ELSE IF ~CheckMetanormaAvailable(probe)
         THEN Result(FALSE, "not_installed", changed, Null)
         ELSE Result(TRUE, "already_installed", changed, probe.version)

-----------------------------------------------------------------------------
(* version/store/version-data-store.ts, called one caller at a time.       *)
(* inst is VersionDataStore.instance: absent (null) or an initialized      *)
(* store holding the fetched tables; fetched is what fetchAllVersions      *)
(* returns if it is called: null (ok = FALSE) or the tables.               *)

NoStore == [present |-> FALSE, snap |-> <<>>]

FetchFailed == [ok |-> FALSE, snap |-> <<>>]

\* getInstance when no other call is in flight: the instance left behind
GetInstanceStore(inst, fetched) ==
    IF inst.present THEN inst
    ELSE IF fetched.ok THEN [present |-> TRUE, snap |-> fetched.snap]
    ELSE NoStore

\* fetchAllVersions calls made by that getInstance
GetInstanceFetches(inst) == IF inst.present THEN 0 ELSE 1

-----------------------------------------------------------------------------
(* version/providers: VersionProvider and SnapProvider over a snap table,  *)
(* a sequence of records [version, revision, channel, arch]                *)

IsAvailable(table, version) ==
    \E i \in 1..Len(table) : table[i].version = version

\* transformSnapVersions: architecture is v.arch || 'amd64'
Architecture(rec) == IF rec.arch = "" THEN "amd64" ELSE rec.arch

\* variant: the map is keyed by version alone
ByVersionOnly(table, version, arch) ==
    LET hits == {i \in 1..Len(table) : table[i].version = version}
    IN IF hits = {} THEN [found |-> FALSE, revision |-> 0, channel |-> ""]
       ELSE LET last == CHOOSE i \in hits : \A j \in hits : j <= i
            IN [found |-> TRUE, revision |-> table[last].revision,
                channel |-> table[last].channel]

\* buildVersionMap: a later record of the same version and architecture
\* replaces an earlier one
ByVersion(table, version, arch) ==
    LET hits == {i \in 1..Len(table) :
                    /\ table[i].version = version
                    /\ Architecture(table[i]) = arch}
    IN IF hits = {} THEN [found |-> FALSE, revision |-> 0, channel |-> ""]
       ELSE LET last == CHOOSE i \in hits : \A j \in hits : j <= i
            IN [found |-> TRUE, revision |-> table[last].revision,
                channel |-> table[last].channel]

-----------------------------------------------------------------------------
(* version/providers/binary-provider.ts: the artifacts of one version, a   *)
(* sequence of records [name, arch, variant], and getBestMatch over them   *)

BinaryPlatformArtifact(name, arch, variant) ==
    [name |-> name, arch |-> arch, variant |-> variant]

\* undefined where an artifact is expected
NoArtifact == BinaryPlatformArtifact(Undefined, Undefined, Undefined)

\* Array.prototype.find: the first element passing the test, or undefined
Find(list, Test(_)) ==
    IF \E i \in 1..Len(list) : Test(list[i])
    THEN list[CHOOSE i \in 1..Len(list) :
                  Test(list[i]) /\ \A j \in 1..(i - 1) : ~Test(list[j])]
    ELSE NoArtifact

DetectPlatformName(processPlatform) ==
    CASE processPlatform = "darwin" -> "darwin"
      [] processPlatform = "linux" -> "linux"
      [] processPlatform = "win32" -> "windows"
      [] OTHER -> "linux"

DetectArchitecture(processPlatform, processArch) ==
    CASE processArch = "arm64" -> "arm64"
      [] processArch = "x64" -> "x86_64"
      [] processArch = "arm" -> "aarch64"
      [] OTHER -> "x86_64"

\* detectVariant returns undefined on every host
DetectVariant(process) == Undefined

\* variant: the third tier accepts an artifact of any platform name
GetBestMatchAnyPlatform(list, process) ==
    IF Len(list) = 0 THEN NoArtifact ELSE list[1]

GetBestMatch(list, process) ==
    IF Len(list) = 0 THEN NoArtifact
    ELSE
    LET targetName == DetectPlatformName(process.platform)
        targetArch == DetectArchitecture(process.platform, process.arch)
        targetVariant == DetectVariant(process)
        Exact(p) == /\ p.name = targetName
                    /\ p.arch = targetArch
                    /\ p.variant = targetVariant
        Arch(p) == /\ p.name = targetName
                   /\ p.arch = targetArch
                   /\ p.variant \in {Undefined, Null, ""}
        Platform(p) == p.name = targetName
        exactMatch == Find(list, Exact)
        archMatch == Find(list, Arch)
    IN IF exactMatch # NoArtifact THEN exactMatch
       ELSE IF archMatch # NoArtifact THEN archMatch
       ELSE Find(list, Platform)

NoProcess == [platform |-> "", arch |-> "", libc |-> ""]

\* getBestMatch has not returned yet
Pending == BinaryPlatformArtifact("<pending>", "<pending>", "<pending>")

ProviderIdle ==
    /\ proc = NoProcess
    /\ platforms = <<>>
    /\ bestMatch = Pending

-----------------------------------------------------------------------------
(* installers/snap-installer.ts *)

\* variant: process.arch is taken as the snap architecture unchanged
MapNodeArchUnmapped(nodeArch) == nodeArch

MapNodeArchToSnapArch(nodeArch) ==
    IF nodeArch \in {"arm64", "aarch64"} THEN "arm64" ELSE "amd64"

\* getRevisionForVersion: found = FALSE stands for the null it returns
GetRevisionForVersion(store, version, nodeArch) ==
    LET none == [found |-> FALSE, revision |-> 0, channel |-> ""]
        hit == ByVersion(store.snap, version, MapNodeArchToSnapArch(nodeArch))
    IN IF ~store.present THEN none
       ELSE IF ~IsAvailable(store.snap, version) THEN none
       ELSE IF ~hit.found \/ hit.revision = 0 \/ hit.channel = "" THEN none
       ELSE hit

SnapBaseArgs == <<"sudo", "snap", "install", "metanorma">>

HoldCommand == <<"snap", "refresh", "metanorma", "--hold">>

\* variant: the channel of the older installer, <version>/<snap channel>
SnapChannelArgsVersioned(s) ==
    IF s.version # Null
    THEN <<"--channel=" \o s.version \o "/" \o s.snapChannel, "--classic">>
    ELSE <<"--classic">>

\* the arguments of the channel-based installation
SnapChannelArgs(s) ==
    IF s.version # Null
    THEN <<"--channel=" \o s.snapChannel, "--classic">>
    ELSE <<"--classic">>

\* SnapInstaller.install: the commands it executes and whether it throws.
\* env.store is the store getVersionStore hands to the installer, env.arch
\* is process.arch, env.exit the exit code of the install command (exec
\* rejects on a non-zero code)
SnapInstall(s, env) ==
    LET rev == IF s.version = Null
               THEN [found |-> FALSE, revision |-> 0, channel |-> ""]
               ELSE GetRevisionForVersion(env.store, s.version, env.arch)
    IN IF s.version # Null /\ rev.found
       THEN LET install == SnapBaseArgs \o
                    <<"--revision=" \o ToString(rev.revision), "--classic">>
            IN IF env.exit # 0 THEN [cmds |-> <<install>>, threw |-> TRUE]
               ELSE [cmds |-> <<install, HoldCommand>>, threw |-> FALSE]
       ELSE LET install == SnapBaseArgs \o SnapChannelArgs(s)
            IN [cmds |-> <<install>>, threw |-> env.exit # 0]

-----------------------------------------------------------------------------
(* installers/brew-installer.ts, choco-installer.ts, the gem installers    *)
(* and the binary installer                                                *)

\* BrewInstaller.install: the three tap commands ignore their exit code
BrewInstall(s, env) ==
    LET tap == IF s.version = Null THEN <<>>
               ELSE << <<"brew", "tap", "metanorma/metanorma">>,
                       <<"git", "checkout", "v" \o s.version>>,
                       <<"brew", "update", "metanorma/metanorma">> >>
    IN [cmds |-> tap \o << <<"brew", "install", "metanorma/metanorma/metanorma">> >>,
        threw |-> env.exit # 0]

PythonCommand ==
    <<"choco", "install", "python3", "--version", "3.9.13", "--yes",
      "--no-progress">>

\* BaseInstaller.commandExists: command -v, then which
CommandExistsCmds(command, probe) ==
    << <<"command", "-v", command>> >>
    \o (IF probe.commandV = "0" THEN <<>> ELSE << <<"which", command>> >>)

CommandExists(probe) == probe.commandV = "0" \/ probe.which = "0"

\* ChocoInstaller.install: the python command runs without ignoreReturnCode,
\* so exec rejects on its non-zero exit; the metanorma command ignores its
\* exit code and probes for the metanorma command instead
ChocoInstall(s, env) ==
    LET args == <<"choco", "install", "metanorma", "--yes", "--no-progress">>
                \o (IF s.chocoPrerelease THEN <<"--pre">> ELSE <<>>)
                \o (IF s.version = Null THEN <<>>
                    ELSE <<"--version",
                           IF s.chocoPrerelease THEN s.version \o "-pre"
                           ELSE s.version>>)
    IN IF env.pythonExit # 0
       THEN [cmds |-> <<PythonCommand>>, threw |-> TRUE]
       ELSE IF env.exit = 0
       THEN [cmds |-> <<PythonCommand, args>>, threw |-> FALSE]
       ELSE [cmds |-> <<PythonCommand, args>>
                      \o CommandExistsCmds("metanorma", env.probe),
             threw |-> ~CommandExists(env.probe)]

\* the steps of a gem installer's install, in order; each may throw
GemSteps(s) ==
    <<"verifyRubyExists", "installRubyDevHeaders", "installRuntimeDependencies",
      "setupGemfile", "ensureBundler", "installGems">>
    \o (IF s.fontistUpdate THEN <<"updateFontist">> ELSE <<>>)
    \o <<"verifyInstallation">>

\* does setupGemfile reach the lookup of a pre-built lock, in a workspace
\* that holds no Gemfile and no Gemfile.lock
ReachesPrebuiltLookup(s) ==
    /\ s.gemfile = Undefined
    /\ s.usePrebuiltLocks
    /\ s.version \notin {Null, "latest"}

\* the files setupGemfile looks at: /setup/Gemfile, and Gemfile and
\* Gemfile.lock of the workspace; pinned is the metanorma-cli version
\* extractMetanormaVersionFromLock reads from the lock, null for none
NoLock == [exists |-> FALSE, pinned |-> Null, origin |-> "none"]

UserLock(version) == [exists |-> TRUE, pinned |-> version, origin |-> "user"]

PrebuiltLock(version) ==
    [exists |-> TRUE, pinned |-> version, origin |-> "prebuilt"]

GemFiles(docker, gemfile, lock) ==
    [docker |-> docker, gemfile |-> gemfile, lock |-> lock]

EmptyWorkspace == GemFiles(FALSE, "absent", NoLock)

DockerGemfile == "/setup/Gemfile"

WorkspaceGemfile == "Gemfile"

WorkspaceLock == "Gemfile.lock"

\* what a call of setupGemfile did: mode names the branch that returned
Resolution(mode, path, threw, probes, fetched, writes, warned, files) ==
    [mode |-> mode, path |-> path, threw |-> threw, probes |-> probes,
     fetched |-> fetched, writes |-> writes, warned |-> warned,
     files |-> files]

\* createDefaultGemfile: one writeFile, which throws when env.writeFails = 1
CreateDefaultGemfile(mode, f, env, probes, fetched) ==
    IF env.writeFails = 1
    THEN Resolution(mode, Undefined, TRUE, probes, fetched, <<>>, FALSE, f)
    ELSE Resolution(mode, WorkspaceGemfile, FALSE, probes, fetched,
                    <<WorkspaceGemfile>>, FALSE,
                    [f EXCEPT !.gemfile = "default"])

\* setupWorkspaceGemfile
SetupWorkspaceGemfile(f, env, probes) ==
    IF f.gemfile # "absent"
    THEN Resolution("workspace", WorkspaceGemfile, FALSE,
                    probes \o <<WorkspaceGemfile>>, <<>>, <<>>, FALSE, f)
    ELSE CreateDefaultGemfile("workspace", f, env,
                              probes \o <<WorkspaceGemfile>>, <<>>)

\* a fetched content that `!content` lets pass
Truthy(content) == content \notin {Null, Undefined, ""}

\* variant: the replacement warning is never shown
UsePrebuiltGemfileLockSilently(version, f, env, probes, fetched) ==
    Resolution("prebuilt", WorkspaceGemfile, FALSE, probes \o <<WorkspaceLock>>,
               fetched \o <<WorkspaceGemfile, WorkspaceLock>>,
               <<WorkspaceGemfile, WorkspaceLock>>, FALSE,
               [f EXCEPT !.gemfile = "prebuilt",
                         !.lock = PrebuiltLock(version)])

\* usePrebuiltGemfileLock: env.gemfileContent and env.lockContent are what
\* fetchGemfile and fetchGemfileLock answer, env.writeFails the writeFile
\* call that throws (0 for none)
UsePrebuiltGemfileLock(version, f, env, probes, fetched) ==
    LET fetched2 == fetched \o <<WorkspaceGemfile, WorkspaceLock>>
        probes2 == probes \o <<WorkspaceLock>>
    IN IF ~Truthy(env.gemfileContent) \/ ~Truthy(env.lockContent)
       THEN CreateDefaultGemfile("dynamic", f, env, probes, fetched2)
       ELSE IF env.writeFails = 1
       THEN Resolution("prebuilt", Undefined, TRUE, probes2, fetched2, <<>>,
                       FALSE, f)
       ELSE IF env.writeFails = 2
       THEN Resolution("prebuilt", Undefined, TRUE, probes2, fetched2,
                       <<WorkspaceGemfile>>, FALSE,
                       [f EXCEPT !.gemfile = "prebuilt"])
       ELSE Resolution("prebuilt", WorkspaceGemfile, FALSE, probes2, fetched2,
                       <<WorkspaceGemfile, WorkspaceLock>>, f.lock.exists,
                       [f EXCEPT !.gemfile = "prebuilt",
                                 !.lock = PrebuiltLock(version)])

\* variant: a custom Gemfile path is looked at after the workspace
ResolveGemfileCustomLast(s, f, env) ==
    IF f.docker
    THEN Resolution("docker", DockerGemfile, FALSE, <<DockerGemfile>>, <<>>,
                    <<>>, FALSE, f)
    ELSE IF f.gemfile # "absent"
    THEN Resolution("existing", WorkspaceGemfile, FALSE,
                    <<DockerGemfile, WorkspaceGemfile>>, <<>>, <<>>, FALSE, f)
    ELSE IF s.gemfile # Undefined
    THEN Resolution("custom", s.gemfile, FALSE,
                    <<DockerGemfile, WorkspaceGemfile>>, <<>>, <<>>, FALSE, f)
    ELSE CreateDefaultGemfile("dynamic", f, env,
                              <<DockerGemfile, WorkspaceGemfile>>, <<>>)

\* variant: a matching workspace lock does not stop the pre-built lookup
ResolveGemfileIgnoringLock(s, f, env) ==
    IF s.gemfile # Undefined
    THEN Resolution("custom", s.gemfile, FALSE, <<>>, <<>>, <<>>, FALSE, f)
    ELSE IF s.version \notin {Null, "latest"} /\ env.available # Null
    THEN UsePrebuiltGemfileLock(s.version, f, env,
             <<DockerGemfile, WorkspaceGemfile, WorkspaceLock>>,
             <<WorkspaceGemfile>>)
    ELSE CreateDefaultGemfile("dynamic", f, env,
             <<DockerGemfile, WorkspaceGemfile, WorkspaceLock>>, <<>>)

\* GemBaseInstaller.setupGemfile on the files f; env.available is what the
\* fetchGemfile call of isVersionAvailable answers
ResolveGemfile(s, f, env) ==
    IF s.gemfile # Undefined
    THEN Resolution("custom", s.gemfile, FALSE, <<>>, <<>>, <<>>, FALSE, f)
    ELSE IF f.docker
    THEN Resolution("docker", DockerGemfile, FALSE, <<DockerGemfile>>, <<>>,
                    <<>>, FALSE, f)
    ELSE IF ~s.usePrebuiltLocks
    THEN SetupWorkspaceGemfile(f, env, <<DockerGemfile>>)
    ELSE IF f.gemfile # "absent"
    THEN Resolution("existing", WorkspaceGemfile, FALSE,
                    <<DockerGemfile, WorkspaceGemfile>>, <<>>, <<>>, FALSE, f)
    ELSE IF f.lock.exists /\ s.version # Null /\ f.lock.pinned = s.version
    THEN Resolution("lock", WorkspaceGemfile, FALSE,
                    <<DockerGemfile, WorkspaceGemfile, WorkspaceLock>>, <<>>,
                    <<>>, FALSE, f)
    ELSE IF s.version \notin {Null, "latest"}
    THEN IF env.available # Null
         THEN UsePrebuiltGemfileLock(s.version, f, env,
                  <<DockerGemfile, WorkspaceGemfile, WorkspaceLock>>,
                  <<WorkspaceGemfile>>)
         ELSE CreateDefaultGemfile("dynamic", f, env,
                  <<DockerGemfile, WorkspaceGemfile, WorkspaceLock>>,
                  <<WorkspaceGemfile>>)
    ELSE CreateDefaultGemfile("dynamic", f, env,
             <<DockerGemfile, WorkspaceGemfile, WorkspaceLock>>, <<>>)

\* what the pre-built lock repository answers when it serves the files
\* (env.locks) or not, with every write succeeding
LocksAnswers(locks) ==
    LET content == IF locks THEN "content" ELSE Null
    IN [available |-> content, gemfileContent |-> content,
        lockContent |-> content, writeFails |-> 0]

\* setupGemfile in a workspace that holds no Gemfile and no Gemfile.lock:
\* the branch that returned
SetupGemfile(s, env) ==
    ResolveGemfile(s, EmptyWorkspace, LocksAnswers(env.locks)).mode

\* installGems: the bundle command it runs
BundleCommand(s) ==
    IF s.bundleUpdate THEN <<"bundle", "update", "--except", "metanorma-cli">>
    ELSE IF s.version = "latest" THEN <<"bundle", "update">>
    ELSE <<"bundle", "install">>

NoGemCall ==
    [stage |-> "idle",
     resolution |-> Resolution("none", Undefined, FALSE, <<>>, <<>>, <<>>,
                               FALSE, EmptyWorkspace),
     lockBefore |-> NoLock, bundle |-> <<>>]

GemIdle ==
    /\ disk = EmptyWorkspace
    /\ gem = NoGemCall

\* install of GemUbuntuInstaller, GemAlpineInstaller and NativeGemInstaller
\* as the steps it reaches: env.failAt is the step that throws, 0 for none.
\* None of the steps reads the version store.
GemInstall(kind, s, env) ==
    LET steps == GemSteps(s)
        n == IF env.failAt \in 1..Len(steps) THEN env.failAt ELSE Len(steps)
    IN [cmds |-> [i \in 1..n |->
                    IF steps[i] = "setupGemfile"
                    THEN <<kind, steps[i], SetupGemfile(s, env)>>
                    ELSE <<kind, steps[i]>>],
        threw |-> env.failAt \in 1..Len(steps)]

\* BinaryInstaller.install up to the version store: without a store it
\* throws 'Failed to fetch version data for binary installation'; with one,
\* env.failAt stands for the later step that throws, 0 for none
\* variant: without a store the installation goes on
BinaryInstallWithoutStore(s, env) ==
    [cmds |-> << <<"binary", "resolve">> >>, threw |-> env.failAt # 0]

BinaryInstall(s, env) ==
    IF ~env.store.present THEN [cmds |-> <<>>, threw |-> TRUE]
    ELSE [cmds |-> << <<"binary", "resolve">> >>, threw |-> env.failAt # 0]

-----------------------------------------------------------------------------
(* installers/binary-installer.ts: install up to the availability check.   *)
(* A version is the number of its release, in release order; 0 stands for  *)
(* no version: an empty input, an empty `latest` of the metadata           *)

\* the number of versions the error message lists
ListLimit == 10

\* Array.prototype.slice(-n)
SliceLast(list, n) ==
    IF Len(list) <= n THEN list ELSE SubSeq(list, Len(list) - n + 1, Len(list))

\* VersionProvider.getAvailableVersions: the versions in table order
GetAvailableVersions(table) == table

\* VersionProvider.isAvailable
BinaryIsAvailable(table, version) ==
    \E i \in 1..Len(table) : table[i] = version

BinaryOutcome(stage, error, resolved, listed) ==
    [stage |-> stage, error |-> error, resolved |-> resolved, listed |-> listed]

\* install from its start to the availability check: hasStore is whether
\* getVersionStore() answers a store, table and latest are the binary
\* provider's, version is settings.version
ResolveBinaryVersion(hasStore, table, latest, version) ==
    LET resolved == IF version = 0 THEN latest ELSE version
    IN IF ~hasStore THEN BinaryOutcome("threw", "no-store", 0, <<>>)
       ELSE IF resolved = 0 THEN BinaryOutcome("threw", "unresolved", 0, <<>>)
       ELSE IF ~BinaryIsAvailable(table, resolved)
       THEN BinaryOutcome("threw", "unavailable", resolved,
                          SliceLast(GetAvailableVersions(table), ListLimit))
       ELSE BinaryOutcome("available", "none", resolved, <<>>)

NoBinaryCall ==
    [hasStore |-> FALSE, table |-> <<>>, latest |-> 0, version |-> 0,
     outcome |-> BinaryOutcome("idle", "none", 0, <<>>)]

BinaryIdle == bin = NoBinaryCall

\* install from the platform match on, for a version that is available.
\* cache is the tool cache, a set of <<version, arch>> entries of the tool
\* 'metanorma'; list is getPlatforms(resolved); env is what the download,
\* the extraction and `metanorma --version` answer
ToolOutcome(ops, threw, cache, tempFiles, artifact) ==
    [ops |-> ops, threw |-> threw, cache |-> cache, tempFiles |-> tempFiles,
     artifact |-> artifact]

\* variant: the tool cache is never consulted
TcFindNothing(cache, version, arch) == ""

\* tc.find('metanorma', version, arch): the path of the entry, '' without
TcFind(cache, version, arch) ==
    IF <<version, arch>> \in cache THEN "cached" ELSE ""

InstallFromArtifact(cache, resolved, list, process, env) ==
    LET artifact == GetBestMatch(list, process)
        toolPath == TcFind(cache, resolved, artifact.arch)
        last == <<"addToPath", "verifyInstallation">>
    IN IF artifact = NoArtifact
       THEN ToolOutcome(<<"getBestMatch">>, TRUE, cache, <<>>, artifact)
       ELSE IF toolPath # ""
       THEN ToolOutcome(<<"getBestMatch", "find">> \o last,
                        env.verifyExit # 0, cache, <<>>, artifact)
       ELSE IF env.download = "throws"
       THEN ToolOutcome(<<"getBestMatch", "find", "downloadTool">>, TRUE,
                        cache, <<>>, artifact)
       ELSE IF env.extract = "throws"
       THEN ToolOutcome(<<"getBestMatch", "find", "downloadTool", "extract">>,
                        TRUE, cache, <<"download">>, artifact)
       ELSE IF env.extract = "no-binary"
       THEN ToolOutcome(<<"getBestMatch", "find", "downloadTool", "extract">>,
                        TRUE, cache, <<"download", "extracted">>, artifact)
       ELSE ToolOutcome(<<"getBestMatch", "find", "downloadTool", "extract",
                          "cacheFile">> \o last,
                        env.verifyExit # 0,
                        cache \cup {<<resolved, artifact.arch>>},
                        <<"download", "extracted">>, artifact)

\* BinaryInstaller.cleanup: removes the files its own tempFiles list names
\* from the temporary files on disk; the list belongs to the object
BinaryCleanup(tempFiles, temp) ==
    {f \in temp : \A i \in 1..Len(tempFiles) : tempFiles[i] # f}

\* tempFiles is the list of the installer object of the main phase, temp
\* the temporary files on disk, each named by the install that made it
NoToolCall ==
    [cache |-> {}, before |-> {}, resolved |-> 0, calls |-> 0,
     tempFiles |-> <<>>, temp |-> {}, cleaned |-> FALSE,
     outcome |-> ToolOutcome(<<>>, FALSE, {}, <<>>, NoArtifact)]

ToolIdle == tool = NoToolCall

-----------------------------------------------------------------------------
(* version/providers: a provider built from the document of one platform  *)
(* file. latest_version is Undefined when the metadata has none            *)

YamlDocument(platform, latest_version, versions) ==
    [platform |-> platform, latest_version |-> latest_version,
     versions |-> versions]

\* transformSnapData and its siblings on a document with a versions key,
\* then the provider's constructor: `latest` is metadata.latest_version or
\* '', the records are copied one for one, in order
BuildProvider(doc) ==
    [platform |-> doc.platform,
     latest |-> IF doc.latest_version \in {Undefined, Null, ""} THEN ""
                ELSE doc.latest_version,
     versions |-> [i \in 1..Len(doc.versions) |-> doc.versions[i]]]

\* VersionProvider.getLatest
GetLatest(provider) == provider.latest

NoQuery == [asked |-> FALSE, version |-> "", nodeArch |-> "",
            answer |-> [found |-> FALSE, revision |-> 0, channel |-> ""]]

\* the UTF-16 code unit of a character of a version string
CodeUnit(c) ==
    CASE c = "." -> 46
      [] c = "0" -> 48 [] c = "1" -> 49 [] c = "2" -> 50 [] c = "3" -> 51
      [] c = "4" -> 52 [] c = "5" -> 53 [] c = "6" -> 54 [] c = "7" -> 55
      [] c = "8" -> 56 [] c = "9" -> 57

\* a > b on two JavaScript strings, given as sequences of characters: the
\* code units at the first position where they differ decide, and a
\* string is greater than each of its proper prefixes
JsStringGreater(a, b) ==
    LET n == IF Len(a) < Len(b) THEN Len(a) ELSE Len(b)
        differ == {i \in 1..n : a[i] # b[i]}
    IN IF differ = {} THEN Len(a) > Len(b)
       ELSE LET k == CHOOSE i \in differ : \A j \in differ : i <= j
            IN CodeUnit(a[k]) > CodeUnit(b[k])

\* `v.version > current` of buildChannelMap
NewerForChannel(version, current) == JsStringGreater(version, current)

\* buildChannelMap over the first n records: for each channel the version
\* kept so far, '' (here <<>>) standing for a channel without entry
RECURSIVE ChannelMapUpTo(_, _, _)
ChannelMapUpTo(table, n, channel) ==
    IF n = 0 THEN <<>>
    ELSE LET current == ChannelMapUpTo(table, n - 1, channel)
             v == table[n]
         IN IF v.channel = channel /\ NewerForChannel(v.version, current)
            THEN v.version
            ELSE current

\* SnapProvider.getLatestForChannel: byChannel.get(channel)
GetLatestForChannel(table, channel) ==
    LET kept == ChannelMapUpTo(table, Len(table), channel)
    IN IF kept = <<>> THEN Undefined ELSE kept

NoChannelQuery == [asked |-> FALSE, channel |-> "", answer |-> Undefined]

NoProvider ==
    [doc |-> YamlDocument("", Undefined, <<>>), built |-> FALSE,
     provider |-> [platform |-> "", latest |-> "", versions |-> <<>>],
     query |-> NoQuery, latestFor |-> NoChannelQuery]

ProvIdle == prov = NoProvider

-----------------------------------------------------------------------------
(* The subprocesses of the strategies: BaseInstaller.execCommand, and what *)
(* each install does with the exit code of each command it runs           *)

\* a command of a strategy: pm is whether it runs a package manager;
\* ignore is the ignoreReturnCode option; check is what install does with
\* a non-zero exit code that execCommand returned: "throw", "probe" (throw
\* unless the metanorma command is found), "warn" or "none"
Command(cmd, pm, ignore, check) ==
    [cmd |-> cmd, pm |-> pm, ignore |-> ignore, check |-> check]

\* ensureBundler when bundler is missing, bundleInstall, updateFontist
GemCommands ==
    << Command("gem install bundler", TRUE, FALSE, "none"),
       Command("bundle install", TRUE, FALSE, "throw"),
       Command("bundle exec fontist update", FALSE, FALSE, "warn") >>

\* NativeGemInstaller: installRubyDevHeaders and installRuntimeDependencies
\* on host h, where apt-get is the package manager of ubuntu and apk the
\* one of alpine
NativeGemCommands(h) ==
    CASE h.platform = "darwin" ->
           << Command("brew install inkscape", TRUE, FALSE, "none") >>
      [] h.platform = "win32" ->
           << Command("choco install inkscape", TRUE, FALSE, "none") >>
      [] h.platform = "linux" /\ h.distribution = "alpine" ->
           << Command("apk add build-base", TRUE, FALSE, "throw"),
              Command("apk add inkscape", TRUE, FALSE, "none") >>
      [] OTHER ->
           << Command("apt-get update", TRUE, FALSE, "throw"),
              Command("apt-get install build-essential", TRUE, FALSE, "throw"),
              Command("apt-get install inkscape", TRUE, FALSE, "none") >>

\* GemUbuntuInstaller and GemAlpineInstaller: installRubyDevHeaders and
\* installRuntimeDependencies
ContainerGemCommands(strategy) ==
    IF strategy = "gem-alpine"
    THEN << Command("apk update", TRUE, FALSE, "throw"),
            Command("apk add ruby-dev", TRUE, FALSE, "throw"),
            Command("apk add inkscape", TRUE, FALSE, "throw") >>
    ELSE << Command("apt-get update", TRUE, FALSE, "throw"),
            Command("apt-get install ruby-dev", TRUE, FALSE, "throw"),
            Command("apt-get install inkscape", TRUE, FALSE, "throw") >>

\* checkRubyInstalled: `ruby --version`; verifyRubyExists throws the
\* remediation error unless it exits 0
RubyCommand == Command("ruby --version", FALSE, TRUE, "throw")

GemBased(strategy) == strategy \in {"native-gem", "gem-ubuntu", "gem-alpine"}

\* the commands of install after the prerequisite check
StrategyCommands(strategy, h, pinned) ==
    CASE strategy = "choco" ->
           << Command("choco install python3", TRUE, FALSE, "warn"),
              Command("choco install metanorma", TRUE, TRUE, "probe") >>
      [] strategy = "brew" ->
           (IF pinned
            THEN << Command("brew tap", TRUE, TRUE, "none"),
                    Command("git checkout", FALSE, TRUE, "none"),
                    Command("brew update", TRUE, TRUE, "none") >>
            ELSE <<>>)
           \o << Command("brew install", TRUE, FALSE, "throw") >>
      [] strategy = "snap" ->
           << Command("snap install", TRUE, FALSE, "throw") >>
           \o (IF pinned
               THEN << Command("snap refresh --hold", TRUE, TRUE, "none") >>
               ELSE <<>>)
      [] strategy = "native-gem" -> NativeGemCommands(h) \o GemCommands
      [] OTHER -> ContainerGemCommands(strategy) \o GemCommands

\* variant: Ruby is looked for after the system packages are installed
InstallCommandsRubyLate(strategy, h, pinned) ==
    IF GemBased(strategy)
    THEN << StrategyCommands(strategy, h, pinned)[1], RubyCommand >>
    ELSE StrategyCommands(strategy, h, pinned)

\* the commands of the install of each strategy on host h, in order;
\* pinned is whether settings.version is set (for snap: and its revision
\* was found)
InstallCommands(strategy, h, pinned) ==
    IF GemBased(strategy)
    THEN <<RubyCommand>> \o StrategyCommands(strategy, h, pinned)
    ELSE StrategyCommands(strategy, h, pinned)

\* exec.exec rejects on a non-zero exit unless ignoreReturnCode is set
ExecRejects(command, exit) == ~command.ignore /\ exit # 0

\* whether the command's step of install throws: matched is whether the
\* output held ' - git.install (exited 1)', found is what
\* commandExists('metanorma') answers
StepThrows(command, exit, matched, found) ==
    \/ ExecRejects(command, exit)
    \/ /\ exit # 0
       /\ \/ command.check = "throw"
          \/ command.check = "probe" /\ ~found

NoSubprocess ==
    [strategy |-> "", pinned |-> FALSE, ran |-> <<>>, threw |-> FALSE]

SubIdle == sub = NoSubprocess

\* the post-action process has not run; cleanup is what installer.cleanup()
\* did: "not-called", "returned" or "threw"
NoPost == [finished |-> FALSE, cleanup |-> "not-called", hadFile |-> FALSE]

PostIdle == post = NoPost

-----------------------------------------------------------------------------
(* container-detector.ts: detectContainer over the answers of its probes. *)
(* An access answers "ok", "absent" or "error" (any other I/O error); a    *)
(* read answers what the content holds, or "error"; `command -v` answers   *)
(* its exit code "0" or "1", or "error" when exec rejects                  *)

\* fileExists: fs.promises.access resolved
FileExists(access) == access = "ok"

\* commandExists of container-detector.ts
ProbedCommandExists(answer) == answer = "0"

\* detectContainerType
DetectContainerType(a) ==
    IF FileExists(a.dockerenv) THEN "docker"
    ELSE IF ~FileExists(a.cgroup) \/ a.cgroupRead = "error" THEN "none"
    ELSE IF a.cgroupRead = "docker" THEN "docker"
    ELSE IF a.cgroupRead = "podman" THEN "podman"
    ELSE IF a.cgroupRead = "lxc" THEN "lxc"
    ELSE "none"

\* detectDistribution
DetectDistribution(a) ==
    IF FileExists(a.alpineRelease) THEN "alpine"
    ELSE IF FileExists(a.osRelease) /\ a.osReleaseRead = "ubuntu" THEN "ubuntu"
    ELSE IF FileExists(a.osRelease) /\ a.osReleaseRead = "debian" THEN "debian"
    ELSE IF FileExists(a.debianVersion) THEN "debian"
    ELSE "unknown"

\* variant: the read of /etc/os-release is outside any try block
DetectContainerReadUncaught(platform, a) ==
    [threw |-> /\ platform = "linux"
               /\ ~FileExists(a.alpineRelease)
               /\ FileExists(a.osRelease)
               /\ a.osReleaseRead = "error",
     info |-> [present |-> TRUE,
               isContainer |-> DetectContainerType(a) # "none",
               type |-> DetectContainerType(a),
               hasRuby |-> ProbedCommandExists(a.ruby),
               hasMetanorma |-> ProbedCommandExists(a.metanorma),
               distribution |-> IF platform = "linux"
                                THEN DetectDistribution(a) ELSE "unknown"]]

\* detectContainer() on process.platform `platform`: whether it threw, and
\* the ContainerInfo it returned
DetectContainerProbed(platform, a) ==
    [threw |-> FALSE,
     info |-> [present |-> TRUE,
               isContainer |-> DetectContainerType(a) # "none",
               type |-> DetectContainerType(a),
               hasRuby |-> ProbedCommandExists(a.ruby),
               hasMetanorma |-> ProbedCommandExists(a.metanorma),
               distribution |-> IF platform = "linux"
                                THEN DetectDistribution(a) ELSE "unknown"]]

NoDetection ==
    [called |-> FALSE, platform |-> "",
     answers |-> [dockerenv |-> "absent", cgroup |-> "absent",
                  cgroupRead |-> "other", alpineRelease |-> "absent",
                  osRelease |-> "absent", osReleaseRead |-> "other",
                  debianVersion |-> "absent", ruby |-> "1",
                  metanorma |-> "1"],
     threw |-> FALSE, info |-> NoContainerInfo]

CtrIdle == ctr = NoDetection

\* no main phase has finished yet; else "install-failed" when the
\* strategy's install threw, "other" when the run ended any other way
PriorIdle == prior = "none"

MoreIdle ==
    ToolIdle /\ ProvIdle /\ SubIdle /\ PostIdle /\ CtrIdle /\ PriorIdle

-----------------------------------------------------------------------------
(* installers/installer-factory.ts *)

CreateNativeInstaller(platform) ==
    CASE platform = "darwin" -> "brew"
      [] platform = "linux" -> "snap"
      [] platform = "win32" -> "choco"
      [] OTHER -> "throw"

CreateGemInstallerAnyContainer(platform, s) ==
    IF s.containerInfo.present /\ s.containerInfo.isContainer
    THEN "gem-ubuntu"
    ELSE "gem-native"

CreateGemInstaller(platform, s) ==
    IF s.containerInfo.present /\ s.containerInfo.isContainer
    THEN IF s.containerInfo.distribution = "alpine" THEN "gem-alpine"
         ELSE "gem-ubuntu"
    ELSE "gem-native"

CreateAutoInstaller(platform, s) ==
    IF s.containerInfo.present /\ s.containerInfo.isContainer
    THEN CreateGemInstaller(platform, s)
    ELSE CreateNativeInstaller(platform)

\* InstallationMethod.Binary as the factory reads it: the enum of
\* platform-detector.ts has the members Auto, Native and Gem only, so the
\* member access evaluates to undefined
InstallationMethodBinary == Undefined

CreateInstaller(platform, installationMethod, s) ==
    IF installationMethod = "native" THEN CreateNativeInstaller(platform)
    ELSE IF installationMethod = "gem" THEN CreateGemInstaller(platform, s)
    ELSE IF installationMethod = InstallationMethodBinary THEN "binary"
    ELSE CreateAutoInstaller(platform, s)

\* installer.install(settings) of the strategy created
Install(kind, s, env) ==
    CASE kind = "snap" -> SnapInstall(s, env)
      [] kind = "brew" -> BrewInstall(s, env)
      [] kind = "choco" -> ChocoInstall(s, env)
      [] kind = "binary" -> BinaryInstall(s, env)
      [] OTHER -> GemInstall(kind, s, env)

\* does the strategy call getVersionStore during install
CallsVersionStore(kind, s) ==
    \/ kind = "binary"
    \/ kind = "snap" /\ s.version # Null

-----------------------------------------------------------------------------
(* main.ts: setOutputs *)

NoOutputs ==
    [set |-> FALSE, version |-> "", platform |-> "", installationMethod |-> "",
     idempotent |-> ""]

\* setOutputs(settings, installedVersion): !!installedVersion is false for
\* null, undefined and the empty string
SetOutputs(s, installedVersion) ==
    LET truthy == installedVersion \notin {Null, Undefined, ""} IN
    [set |-> TRUE,
     version |-> IF truthy THEN installedVersion
                 ELSE IF s.version # Null THEN s.version ELSE "latest",
     platform |-> s.platform,
     installationMethod |-> s.installationMethod,
     idempotent |-> BoolText(truthy)]

-----------------------------------------------------------------------------
(* The environment of a run: action inputs, the host, the metadata the     *)
(* remote serves, the answers of probes and commands                       *)

\* at most this many action inputs are set to a non-default value in a run
MaxNonDefault == 1

InputNames ==
    {"version", "snapChannel", "chocoPrerelase", "installationMethod",
     "bundlerVersion", "gemfile", "fontistUpdate", "bundleUpdate",
     "usePrebuiltLocks"}

AllRawInputs ==
    [version : {"", "1.12.0", "1.13.9", "1.14.3", "latest"},
     snapChannel : {"", "edge", "nightly"},
     chocoPrerelase : {"", "true"},
     installationMethod : {"", "native", "gem", "binary"},
     bundlerVersion : {"", "2.5.0"},
     gemfile : {"", "ci/Gemfile"},
     fontistUpdate : {"", "false"},
     bundleUpdate : {""},
     usePrebuiltLocks : {""}]

RawInputsUpTo(n) ==
    {raw \in AllRawInputs :
        Cardinality({name \in InputNames : raw[name] # ""}) <= n}

RawInputs == RawInputsUpTo(MaxNonDefault)

Workspace == <<"/", "w">>

Host(platform, containerType, distribution, hasRuby) ==
    [platform |-> platform, workspace |-> Workspace,
     containerType |-> containerType, distribution |-> distribution,
     hasRuby |-> hasRuby, hasMetanorma |-> FALSE]

\* the machines a workflow runs on
Hosts ==
    {Host("darwin", "none", "unknown", TRUE),
     Host("win32", "none", "unknown", FALSE),
     Host("linux", "none", "ubuntu", FALSE),
     Host("linux", "docker", "alpine", TRUE),
     Host("freebsd", "none", "unknown", FALSE)}

\* the machines the factory and the strategies are exercised on
InstallHosts ==
    {h \in Hosts : ~DetectPlatformThrows(h.platform)}
    \cup {Host("linux", "docker", "ubuntu", TRUE)}

SnapRecord(version, revision, channel, arch) ==
    [version |-> version, revision |-> revision, channel |-> channel,
     arch |-> arch]

\* the snap table the remote serves: 1.13.9 for both architectures, 1.14.3
\* in one record without arch, 1.12.0 not at all
SnapTables ==
    { << SnapRecord("1.13.9", 276, "stable", "amd64"),
         SnapRecord("1.13.9", 277, "stable", "arm64"),
         SnapRecord("1.14.3", 290, "edge", "") >> }

\* what fetchAllVersions can return: null, or the tables
FetchResults == {FetchFailed} \cup {[ok |-> TRUE, snap |-> t] : t \in SnapTables}

ProbeAnswers == {"0", "1", "throw"}

Probes ==
    [commandV : ProbeAnswers, which : ProbeAnswers, version : {Null, "1.13.9"}]

NoProbe == [commandV |-> "throw", which |-> "throw", version |-> Null]

NoInstallEnv ==
    [used |-> FALSE, store |-> NoStore, arch |-> "", exit |-> 0,
     pythonExit |-> 0, probe |-> NoProbe, failAt |-> 0, locks |-> FALSE]

\* the answers the environment can give to the strategy kind installing s;
\* an answer the strategy never asks for is left at its default
InstallEnvs(kind, s, store) ==
    LET base == [NoInstallEnv EXCEPT !.used = TRUE, !.store = store] IN
    CASE kind = "snap" ->
           {[base EXCEPT !.arch = a, !.exit = e] :
               a \in {"x64", "arm64"}, e \in {0, 1}}
      [] kind = "brew" -> {[base EXCEPT !.exit = e] : e \in {0, 1}}
      [] kind = "choco" ->
           {[base EXCEPT !.pythonExit = 1], base}
           \cup {[base EXCEPT !.exit = 1, !.probe = p] :
                    p \in {q \in Probes : q.version = Null}}
      [] kind = "binary" -> {[base EXCEPT !.failAt = f] : f \in {0, 1}}
      [] OTHER ->
           {[base EXCEPT !.failAt = f, !.locks = l] :
               f \in 0..Len(GemSteps(s)),
               l \in IF ReachesPrebuiltLookup(s) THEN BOOLEAN ELSE {FALSE}}

-----------------------------------------------------------------------------
(* version/client/mnenv-yaml-fetcher.ts: fetchAllVersions and the five     *)
(* fetchYamlFile promises it joins with Promise.all                        *)

FetchPlatforms == {"snap", "gemfile", "homebrew", "chocolatey", "binary"}

Request(state, doc, reason) == [state |-> state, doc |-> doc, reason |-> reason]

NoFetchResult == [kind |-> "none", tables |-> <<>>]

FetchIdle ==
    /\ req = [p \in FetchPlatforms |-> Request("idle", "none", "none")]
    /\ fetchResult = NoFetchResult

EmptyTable == [count |-> 0, latest |-> "", versions |-> <<>>]

RecordsTable == [count |-> 1, latest |-> "1.13.9", versions |-> <<"1.13.9">>]

\* transformSnapData and its four siblings: a document that is empty or
\* has no versions key gives the empty table
TransformData(doc) ==
    IF doc \in {"emptyDocument", "noVersions"} THEN EmptyTable ELSE RecordsTable

\* fetchAllVersions is called: the five requests are sent, each with its
\* timer armed
FetchAllVersions ==
    /\ \A p \in FetchPlatforms : req[p].state = "idle"
    /\ req' = [p \in FetchPlatforms |-> Request("pending", "none", "none")]
    /\ UNCHANGED <<fetchResult, runVars, storeVars, unitVars>>

\* the response callback of fetchYamlFile: the timer is cleared; a status
\* other than 200 rejects
FetchResponse(p) ==
    /\ req[p].state = "pending"
    /\ \E status \in {200, 404, 500} :
         req' = [req EXCEPT ![p] =
                    IF status = 200 THEN Request("receiving", "none", "none")
                    ELSE Request("rejected", "none", "status")]
    /\ UNCHANGED <<fetchResult, runVars, storeVars, unitVars>>

\* the 'error' event of the request: the timer is cleared, the promise
\* rejects
FetchRequestError(p) ==
    /\ req[p].state = "pending"
    /\ req' = [req EXCEPT ![p] = Request("rejected", "none", "error")]
    /\ UNCHANGED <<fetchResult, runVars, storeVars, unitVars>>

\* the timer fires: only while no response has cleared it
FetchTimeout(p) ==
    /\ req[p].state = "pending"
    /\ req' = [req EXCEPT ![p] = Request("rejected", "none", "timeout")]
    /\ UNCHANGED <<fetchResult, runVars, storeVars, unitVars>>

\* the 'end' event of the response: yaml.load of the body resolves the
\* promise, or throws and rejects it
FetchBodyEnd(p) ==
    /\ req[p].state = "receiving"
    /\ \E body \in {"records", "noVersions", "emptyDocument", "unparseable"} :
         req' = [req EXCEPT ![p] =
                    IF body = "unparseable"
                    THEN Request("rejected", "none", "parse")
                    ELSE Request("resolved", body, "none")]
    /\ UNCHANGED <<fetchResult, runVars, storeVars, unitVars>>

\* Promise.all settles: with the first rejection fetchAllVersions ends in
\* its catch and returns null; with five resolutions it returns the tables
FetchSettle ==
    /\ fetchResult.kind = "none"
    /\ IF \E p \in FetchPlatforms : req[p].state = "rejected"
       THEN fetchResult' = [kind |-> "null", tables |-> <<>>]
       ELSE /\ \A p \in FetchPlatforms : req[p].state = "resolved"
            /\ fetchResult' =
                   [kind |-> "tables",
                    tables |-> [p \in FetchPlatforms |->
                                   TransformData(req[p].doc)]]
    /\ UNCHANGED <<req, runVars, storeVars, unitVars>>

-----------------------------------------------------------------------------
(* version/store/version-data-store.ts: getInstance() and initialize(),    *)
(* with calls that may overlap at the await of the fetch. The object       *)
(* constructed by call c has identity c; 0 stands for null.                *)

\* getInstance() calls made in one process
MaxCalls == 4

Calls == 1..MaxCalls

NewObject == [constructed |-> FALSE, isInitialized |-> FALSE,
              initializationFailed |-> FALSE]

StoreIdle ==
    /\ instance = 0
    /\ objs = [c \in Calls |-> NewObject]
    /\ call = [c \in Calls |-> "notCalled"]
    /\ result = [c \in Calls |-> "none"]
    /\ storeFetches = 0
    /\ initFailed = FALSE

\* getInstance() up to its first suspension. Without an instance it
\* constructs one and enters initialize(), which on a new object passes
\* both flags and awaits fetchAllVersions; with an instance it returns it,
\* initialized or not
GetInstanceCall(c) ==
    /\ call[c] = "notCalled"
    /\ IF instance = 0
       THEN /\ instance' = c
            /\ objs' = [objs EXCEPT ![c].constructed = TRUE]
            /\ storeFetches' = storeFetches + 1
            /\ call' = [call EXCEPT ![c] = "awaitingFetch"]
            /\ UNCHANGED result
       ELSE /\ call' = [call EXCEPT ![c] = "returned"]
            /\ result' = [result EXCEPT ![c] = instance]
            /\ UNCHANGED <<instance, objs, storeFetches>>
    /\ UNCHANGED <<initFailed, runVars, fetchVars, unitVars>>

\* the fetch of call c answers. On null initialize() sets
\* initializationFailed on its object and returns false, and getInstance
\* sets VersionDataStore.instance to null and returns null; otherwise
\* isInitialized is set and getInstance returns VersionDataStore.instance
\* as it is then
GetInstanceResume(c) ==
    /\ call[c] = "awaitingFetch"
    /\ \E fetched \in FetchResults :
         IF fetched.ok
         THEN /\ objs' = [objs EXCEPT ![c].isInitialized = TRUE]
              /\ result' = [result EXCEPT ![c] = instance]
              /\ UNCHANGED <<instance, initFailed>>
         ELSE /\ objs' = [objs EXCEPT ![c].initializationFailed = TRUE]
              /\ instance' = 0
              /\ result' = [result EXCEPT ![c] = 0]
              /\ initFailed' = TRUE
    /\ call' = [call EXCEPT ![c] = "returned"]
    /\ UNCHANGED <<storeFetches, runVars, fetchVars, unitVars>>

-----------------------------------------------------------------------------
(* main.ts: run() and cleanup(), one process at a time in a workspace *)

ResetRun ==
    /\ settings' = NoSettings
    /\ toolFound' = FALSE
    /\ decision' = NoDecision
    /\ installer' = "none"
    /\ cmds' = <<>>
    /\ installEnv' = NoInstallEnv
    /\ failed' = FALSE
    /\ outputs' = NoOutputs

\* a new process starts run(): new IdempotencyManager(), getVersionStore()
RunBegin ==
    /\ pc = "idle"
    /\ \E fetched \in FetchResults :
           storeInst' = GetInstanceStore(NoStore, fetched)
    /\ fetches' = GetInstanceFetches(NoStore)
    /\ ResetRun
    /\ pc' = "inputs"
    /\ UNCHANGED <<machine, stateFile, savedBy, config>>
    /\ UNCHANGED <<fetchVars, storeVars, unitVars>>

\* getInputs(); a throw ends in the catch of run(): setFailed
RunGetInputs ==
    /\ pc = "inputs"
    /\ \E raw \in RawInputs :
           IF GetInputsThrows(raw, machine)
           THEN /\ failed' = TRUE
                /\ pc' = "done"
                /\ UNCHANGED settings
           ELSE /\ settings' = GetInputs(raw, machine)
                /\ pc' = "check"
                /\ UNCHANGED failed
    /\ UNCHANGED <<machine, stateFile, savedBy, config, storeInst, fetches, toolFound,
                   decision, installer, cmds, installEnv, outputs>>
    /\ UNCHANGED <<fetchVars, storeVars, unitVars>>

\* checkAndSkipIfAlreadyInstalled, and the early return of run() on a skip
RunCheck ==
    /\ pc = "check"
    /\ \E probe \in Probes :
           LET r == CheckAndSkipIfAlreadyInstalled(config, stateFile, settings,
                                                   probe)
           IN /\ decision' = r
              /\ toolFound' = CheckMetanormaAvailable(probe)
              /\ failed' = r.threw
              /\ outputs' = IF r.shouldSkip
                            THEN SetOutputs(settings, r.installedVersion)
                            ELSE outputs
              /\ pc' = IF r.threw \/ r.shouldSkip THEN "done" ELSE "create"
    /\ UNCHANGED <<machine, stateFile, savedBy, config, storeInst, fetches, settings,
                   installer, cmds, installEnv>>
    /\ UNCHANGED <<fetchVars, storeVars, unitVars>>

\* InstallerFactory.createInstaller
RunCreateInstaller ==
    /\ pc = "create"
    /\ LET kind == CreateInstaller(settings.platform,
                                   settings.installationMethod, settings)
       IN IF kind = "throw"
          THEN /\ failed' = TRUE
               /\ pc' = "done"
               /\ UNCHANGED installer
          ELSE /\ installer' = kind
               /\ pc' = "install"
               /\ UNCHANGED failed
    /\ UNCHANGED <<machine, stateFile, savedBy, config, storeInst, fetches, settings,
                   toolFound, decision, cmds, installEnv, outputs>>
    /\ UNCHANGED <<fetchVars, storeVars, unitVars>>

\* variant: run() goes on to save the state after an install that threw
RunInstallThenSave ==
    /\ pc = "install"
    /\ \E fetched \in FetchResults :
         LET calls == CallsVersionStore(installer, settings)
             store == IF calls THEN GetInstanceStore(storeInst, fetched)
                      ELSE storeInst
         IN /\ storeInst' = store
            /\ fetches' = fetches +
                   (IF calls THEN GetInstanceFetches(storeInst) ELSE 0)
            /\ \E env \in InstallEnvs(installer, settings, store) :
                 LET r == Install(installer, settings, env)
                 IN /\ cmds' = r.cmds
                    /\ installEnv' = env
                    /\ failed' = r.threw
                    /\ pc' = "save"
    /\ UNCHANGED <<machine, stateFile, savedBy, config, settings, toolFound, decision,
                   installer, outputs>>
    /\ UNCHANGED <<fetchVars, storeVars, unitVars>>

\* installer.install(settings); a throw ends in the catch of run()
RunInstall ==
    /\ pc = "install"
    /\ \E fetched \in FetchResults :
         LET calls == CallsVersionStore(installer, settings)
             store == IF calls THEN GetInstanceStore(storeInst, fetched)
                      ELSE storeInst
         IN /\ storeInst' = store
            /\ fetches' = fetches +
                   (IF calls THEN GetInstanceFetches(storeInst) ELSE 0)
            /\ \E env \in InstallEnvs(installer, settings, store) :
                 LET r == Install(installer, settings, env)
                 IN /\ cmds' = r.cmds
                    /\ installEnv' = env
                    /\ failed' = r.threw
                    /\ pc' = IF r.threw THEN "done" ELSE "save"
    /\ UNCHANGED <<machine, stateFile, savedBy, config, settings, toolFound, decision,
                   installer, outputs>>
    /\ UNCHANGED <<fetchVars, storeVars, unitVars>>

\* getMetanormaVersion(), saveInstallationState (a failed write is only
\* warned about), setOutputs
RunSaveState ==
    /\ pc = "save"
    /\ \E detected \in {Null, "1.13.9"}, written \in BOOLEAN :
         /\ stateFile' = IF written THEN SavedFile(settings) ELSE stateFile
         /\ savedBy' = IF written THEN settings ELSE savedBy
         /\ outputs' = SetOutputs(settings, detected)
    /\ pc' = "done"
    /\ UNCHANGED <<machine, config, storeInst, fetches, settings, toolFound, decision,
                   installer, cmds, installEnv, failed>>
    /\ UNCHANGED <<fetchVars, storeVars, unitVars>>

\* the process of the main phase ends
RunExit ==
    /\ pc = "done"
    /\ pc' = "idle"
    /\ storeInst' = NoStore
    /\ fetches' = 0
    /\ ResetRun
    /\ prior' = IF installEnv.used /\ failed THEN "install-failed" ELSE "other"
    /\ UNCHANGED <<machine, stateFile, savedBy, config>>
    /\ UNCHANGED <<fetchVars, storeVars, providerVars, gemVars, bin, tool, prov,
                   sub, post, ctr>>

\* BrewInstaller.cleanup runs brew untap inside try/finally, without a
\* catch: exec rejects when the brew executable is missing. The cleanup of
\* the other native and gem strategies executes nothing.
CleanupCanThrow(kind) == kind = "brew"

\* cleanup() of main.ts on machine h with state file `file`: getInputs,
\* createInstaller, installer.cleanup(), clearState; any throw ends in its
\* catch (a warning) before clearState is reached, and a failed unlink is
\* only warned about. throws is whether the strategy's cleanup meets a
\* failure it does not catch, unlinked whether the unlink succeeds
Cleanup(raw, h, file, throws, unlinked) ==
    LET s == GetInputs(raw, h)
        kind == CreateInstaller(s.platform, s.installationMethod, s)
        called == ~GetInputsThrows(raw, h) /\ kind # "throw"
        threw == called /\ throws /\ CleanupCanThrow(kind)
        reached == called /\ ~threw
    IN [cleared |-> reached /\ file.kind # "absent" /\ unlinked,
        cleanup |-> IF threw THEN "threw"
                    ELSE IF called THEN "returned" ELSE "not-called"]

\* a new process runs cleanup()
RunPost ==
    /\ pc = "idle"
    /\ \E raw \in RawInputs, throws \in BOOLEAN, unlinked \in BOOLEAN :
         LET r == Cleanup(raw, machine, stateFile, throws, unlinked)
         IN /\ stateFile' = IF r.cleared THEN AbsentFile ELSE stateFile
            /\ savedBy' = IF r.cleared THEN NoSettings ELSE savedBy
    /\ UNCHANGED <<machine, pc, config, storeInst, fetches, settings, toolFound,
                   decision, installer, cmds, installEnv, failed, outputs>>
    /\ UNCHANGED <<fetchVars, storeVars, unitVars>>

RawDefault == CHOOSE raw \in AllRawInputs : \A n \in InputNames : raw[n] = ""

\* damaged content: what a run on machine h with default inputs saves,
\* with one part of it spoiled
TamperedFiles(h) ==
    LET f == SavedFile(GetInputs(RawDefault, h)) IN
    { [f EXCEPT !.kind = "unparseable"],
      [f EXCEPT !.kind = "jsonNull"],
      [f EXCEPT !.platform = Undefined],
      [f EXCEPT !.installationMethod = Null],
      [f EXCEPT !.checksum.type = "undefined"],
      [f EXCEPT !.checksum.type = "number"],
      [f EXCEPT !.checksum.len = 31],
      [f EXCEPT !.hasInstallPath = FALSE, !.installPath = <<>>],
      [f EXCEPT !.installPath = <<"/", "x">>],
      [f EXCEPT !.installPath = <<"/", "w", "2">>],
      [f EXCEPT !.checksum.of = <<>>] }

\* between two processes the workspace file is damaged
TamperStateFile ==
    /\ pc = "idle"
    /\ \E f \in TamperedFiles(machine) : stateFile' = f
    /\ savedBy' = NoSettings
    /\ UNCHANGED <<machine, pc, config, storeInst, fetches, settings, toolFound,
                   decision, installer, cmds, installEnv, failed, outputs>>
    /\ UNCHANGED <<fetchVars, storeVars, unitVars>>

\* between two processes the workspace file is replaced by the file a
\* successful run with default inputs saved on some machine (a restored
\* cache or artifact)
RestoreStateFile ==
    /\ pc = "idle"
    /\ \E h \in Hosts :
         /\ ~DetectPlatformThrows(h.platform)
         /\ stateFile' = SavedFile(GetInputs(RawDefault, h))
         /\ savedBy' = GetInputs(RawDefault, h)
    /\ UNCHANGED <<machine, pc, config, storeInst, fetches, settings, toolFound,
                   decision, installer, cmds, installEnv, failed, outputs>>
    /\ UNCHANGED <<fetchVars, storeVars, unitVars>>

RunIdle ==
    /\ pc = "idle"
    /\ stateFile = AbsentFile
    /\ savedBy = NoSettings
    /\ storeInst = NoStore
    /\ fetches = 0
    /\ settings = NoSettings
    /\ toolFound = FALSE
    /\ decision = NoDecision
    /\ installer = "none"
    /\ cmds = <<>>
    /\ installEnv = NoInstallEnv
    /\ failed = FALSE
    /\ outputs = NoOutputs
    /\ FetchIdle
    /\ StoreIdle

Init ==
    /\ machine \in Hosts
    /\ RunIdle
    /\ ProviderIdle
    /\ GemIdle
    /\ BinaryIdle
    /\ MoreIdle
    /\ config = DEFAULT_IDEMPOTENCY_CONFIG

Next ==
    \/ RunBegin
    \/ RunGetInputs
    \/ RunCheck
    \/ RunCreateInstaller
    \/ RunInstall
    \/ RunSaveState
    \/ RunExit
    \/ RunPost
    \/ TamperStateFile
    \/ RestoreStateFile

vars == <<runVars, fetchVars, storeVars, unitVars>>

Spec == Init /\ [][Next]_vars

-----------------------------------------------------------------------------
(* Properties of run(): idempotency across runs in one workspace *)

\* the state file is the one a successful run with settings savedBy wrote
PersistedByRun == savedBy # NoSettings /\ stateFile = SavedFile(savedBy)

\* C1: after a run that installed and persisted its state, a run in the same
\* workspace with identical settings that finds the tool on PATH decides to
\* skip; a run that skips ends at once, with no installer created and no
\* command executed
C1_SecondRunSkips ==
    /\ [][(/\ pc = "check" /\ pc' # "check"
           /\ PersistedByRun /\ settings = savedBy /\ toolFound')
          => (/\ decision'.shouldSkip
              /\ decision'.reason = "already_installed"
              /\ pc' = "done" /\ ~failed')]_vars
    /\ [](decision.shouldSkip
            => (pc = "done" /\ installer = "none" /\ cmds = <<>>
                /\ ~installEnv.used))

C1_Witness ==
    /\ pc = "done"
    /\ PersistedByRun /\ settings = savedBy /\ toolFound
    /\ decision.shouldSkip
    /\ outputs.set

ChecksumFields ==
    {"platform", "installationMethod", "version", "snapChannel",
     "chocoPrerelease", "gemfile", "bundlerVersion"}

DiffersIn(s, t) == {f \in ChecksumFields : s[f] # t[f]}

\* C2: after a successful run, a run whose settings differ from the saved
\* ones in a checksum-relevant field does not skip, whatever the PATH probes
\* answer: it goes on to create the installer and install
C2_ChangeForcesReinstall ==
    [][(/\ pc = "check" /\ pc' # "check"
        /\ PersistedByRun /\ DiffersIn(settings, savedBy) # {})
       => (/\ ~decision'.shouldSkip
           /\ decision'.reason = "configuration_changed"
           /\ pc' = "create"
           /\ CreateInstaller(settings.platform, settings.installationMethod,
                              settings) # "throw")]_vars

\* a run that reinstalled after a change of the snap channel alone, with
\* the tool on PATH
C2_Witness ==
    /\ pc = "save"
    /\ PersistedByRun
    /\ DiffersIn(settings, savedBy) = {"snapChannel"}
    /\ toolFound
    /\ cmds # <<>>

-----------------------------------------------------------------------------
(* The idempotency manager under every configuration it can be given *)

IdempotencyConfigs == [enabled : BOOLEAN, reinstallOnConfigChange : BOOLEAN]

InitIdem ==
    /\ machine \in Hosts
    /\ RunIdle
    /\ ProviderIdle
    /\ GemIdle
    /\ BinaryIdle
    /\ MoreIdle
    /\ config \in IdempotencyConfigs

SpecIdem == InitIdem /\ [][Next]_vars

\* the check runs: checkAndSkipIfAlreadyInstalled returns or throws
CheckStep == pc = "check" /\ pc' # "check"

\* the state file was saved by a run in this environment (platform, method
\* and path as now) whose checksum-relevant settings differ from the
\* current ones, and the manager does not reinstall on a changed checksum
ChecksumMismatchTolerated ==
    /\ config.enabled /\ ~config.reinstallOnConfigChange
    /\ PersistedByRun
    /\ DiffersIn(settings, savedBy) # {}
    /\ DiffersIn(settings, savedBy) \cap {"platform", "installationMethod"} = {}
    /\ settings.installPath = savedBy.installPath

FailsValidation(file) ==
    /\ file.kind # "absent"
    /\ \/ file.kind \in {"unparseable", "jsonNull"}
       \/ file.platform \in {Undefined, Null}
       \/ file.installationMethod \in {Undefined, Null}
       \/ file.checksum.type # "string"
       \/ file.checksum.len # 32

\* C7: with a state file that fails validation the check does not fail
\* the run, and its decision is the one taken when no state file exists
C7_CorruptStateAsNoState ==
    [][(CheckStep /\ FailsValidation(stateFile))
       => (/\ ~decision'.threw /\ ~failed'
           /\ \A probe \in Probes :
                decision' = CheckAndSkipIfAlreadyInstalled(config, AbsentFile,
                                                           settings, probe)
           /\ ~decision'.shouldSkip
           /\ pc' = "create")]_vars

\* a run that went on to install over a state file whose checksum has 31
\* characters, with the tool on PATH
C7_Witness ==
    /\ pc = "install"
    /\ FailsValidation(stateFile)
    /\ stateFile.kind = "object" /\ stateFile.checksum.len = 31
    /\ config.enabled /\ toolFound
    /\ ~failed

\* prefix is a path-prefix of path: equal to it, or followed in it by a
\* separator
IsPathPrefix(prefix, path) ==
    /\ prefix # <<>>
    /\ StartsWith(path, prefix)
    /\ \/ Len(prefix) = Len(path)
       \/ prefix[Len(prefix)] = "/"
       \/ path[Len(prefix) + 1] = "/"

\* the state file is loaded as a state whose install path is unrelated to
\* the install path of the settings
UnrelatedPathPersisted ==
    /\ config.enabled
    /\ LoadInstallationState(stateFile)
    /\ stateFile.hasInstallPath
    /\ ~IsPathPrefix(stateFile.installPath, settings.installPath)
    /\ ~IsPathPrefix(settings.installPath, stateFile.installPath)

\* C37: when neither the persisted install path nor the current one is a
\* path-prefix of the other, the check decides to install, with reason
\* configuration_changed
C37_UnrelatedPathReinstalls ==
    [][(CheckStep /\ UnrelatedPathPersisted)
       => (/\ ~decision'.shouldSkip
           /\ decision'.reason = "configuration_changed")]_vars

\* a run in workspace /w has decided over a state persisted for /w2, with
\* the tool on PATH
C37_Witness ==
    /\ pc = "done"
    /\ UnrelatedPathPersisted
    /\ settings.installPath = <<"/", "w">>
    /\ stateFile.installPath = <<"/", "w", "2">>
    /\ toolFound
    /\ decision # NoDecision

-----------------------------------------------------------------------------
(* The factory and the strategies called on their own, as the test suite   *)
(* calls them: every installation method of the factory, every settings    *)
(* record getInputs can build, metadata fetched or not                     *)

\* at most this many action inputs are non-default in such a call
MaxInstallInputs == 2

\* the values the suites pass as the installation method: the enum members,
\* InstallationMethod.Binary among them, and the string 'binary'
FactoryMethods == {"native", "gem", "binary", "auto", InstallationMethodBinary}

InstallSettings(h) ==
    {[GetInputs(raw, h) EXCEPT !.installationMethod = m] :
        raw \in {r \in RawInputsUpTo(MaxInstallInputs) : ~GetInputsThrows(r, h)},
        m \in FactoryMethods}

InitInstall ==
    /\ machine \in InstallHosts
    /\ pc = "create"
    /\ settings \in InstallSettings(machine)
    /\ \E fetched \in FetchResults :
           storeInst = GetInstanceStore(NoStore, fetched)
    /\ fetches = GetInstanceFetches(NoStore)
    /\ stateFile = AbsentFile
    /\ savedBy = NoSettings
    /\ config = DEFAULT_IDEMPOTENCY_CONFIG
    /\ toolFound = FALSE
    /\ decision = Result(FALSE, "not_installed", FALSE, Null)
    /\ installer = "none"
    /\ cmds = <<>>
    /\ installEnv = NoInstallEnv
    /\ failed = FALSE
    /\ outputs = NoOutputs
    /\ FetchIdle
    /\ StoreIdle
    /\ ProviderIdle
    /\ GemIdle
    /\ BinaryIdle
    /\ MoreIdle

NextInstall ==
    \/ RunCreateInstaller
    \/ RunInstall

SpecInstall == InitInstall /\ [][NextInstall]_vars

\* install() has run and neither the version store nor the pre-built
\* locks could be fetched
MetadataUnavailable ==
    /\ installEnv.used
    /\ ~installEnv.store.present
    /\ ~installEnv.locks

\* every command the strategy executed ended with exit code 0
CommandsSucceed ==
    installEnv.exit = 0 /\ installEnv.pythonExit = 0 /\ installEnv.failAt = 0

HasArgument(cmd, prefix) == \E i \in 1..Len(cmd) : StartsWith(cmd[i], prefix)

Revision276Case ==
    /\ installer = "snap"
    /\ installEnv.used
    /\ settings.version = "1.13.9"
    /\ installEnv.arch = "x64"
    /\ installEnv.store.present
    /\ \E i \in 1..Len(installEnv.store.snap) :
          LET rec == installEnv.store.snap[i] IN
          rec.version = "1.13.9" /\ rec.revision = 276 /\ rec.arch = "amd64"

PinnedInstall276 ==
    <<"sudo", "snap", "install", "metanorma", "--revision=276", "--classic">>

\* C8: for version 1.13.9 with revision 276 on amd64 the snap strategy runs
\* the install command with --revision=276 --classic and, once that command
\* has succeeded, the hold command; if it fails nothing else is run
C8_RevisionPinnedThenHeld ==
    Revision276Case
    => IF installEnv.exit = 0
       THEN /\ cmds = <<PinnedInstall276,
                         <<"snap", "refresh", "metanorma", "--hold">> >>
            /\ ~failed
       ELSE /\ cmds = <<PinnedInstall276>>
            /\ failed

C8_Witness ==
    /\ Revision276Case
    /\ installEnv.exit = 0
    /\ Len(cmds) = 2
    /\ pc = "save"

\* the snap strategy ran for a requested version for which no revision can
\* be resolved: no store, or a store whose snap table lacks the version
NoRevisionCase ==
    /\ installer = "snap"
    /\ installEnv.used
    /\ settings.version # Null
    /\ \/ ~installEnv.store.present
       \/ \A i \in 1..Len(installEnv.store.snap) :
             installEnv.store.snap[i].version # settings.version

C10_NoChannelNoClassic ==
    (/\ installer = "snap" /\ installEnv.used
     /\ settings.version = Null
     /\ machine.platform = "linux" /\ machine.containerType = "none")
    => /\ Len(cmds) = 1
       /\ ~HasArgument(cmds[1], "--channel")
       /\ ~HasArgument(cmds[1], "--classic")

\* the snap strategy installed on native Linux with an empty version
C10_Witness ==
    /\ installer = "snap" /\ installEnv.used
    /\ settings.version = Null
    /\ machine.platform = "linux" /\ machine.containerType = "none"
    /\ installEnv.exit = 0 /\ pc = "save"

-----------------------------------------------------------------------------
(* The metadata fetcher on its own *)

InitFetch ==
    /\ machine \in {h \in Hosts : h.platform = "linux" /\ h.containerType = "none"}
    /\ RunIdle
    /\ ProviderIdle
    /\ GemIdle
    /\ BinaryIdle
    /\ MoreIdle
    /\ config = DEFAULT_IDEMPOTENCY_CONFIG

NextFetch ==
    \/ FetchAllVersions
    \/ \E p \in FetchPlatforms : FetchResponse(p)
    \/ \E p \in FetchPlatforms : FetchRequestError(p)
    \/ \E p \in FetchPlatforms : FetchTimeout(p)
    \/ \E p \in FetchPlatforms : FetchBodyEnd(p)
    \/ FetchSettle

SpecFetch == InitFetch /\ [][NextFetch]_vars

\* the request of platform p ended in a non-200 status or an unparseable
\* body while the other four resolved with records
OnlyFailed(p) ==
    /\ req[p].state = "rejected"
    /\ req[p].reason \in {"status", "parse"}
    /\ \A q \in FetchPlatforms \ {p} :
          req[q].state = "resolved" /\ req[q].doc = "records"

\* C5: if one platform's request ends in a non-200 status or an
\* unparseable body while the other four succeed, fetchAll returns a
\* non-null result in which only that platform's table is the empty table
C5_FailureIsolatedPerPlatform ==
    \A p \in FetchPlatforms :
        (fetchResult.kind # "none" /\ OnlyFailed(p))
        => /\ fetchResult.kind = "tables"
           /\ fetchResult.tables[p] = EmptyTable
           /\ \A q \in FetchPlatforms \ {p} :
                 fetchResult.tables[q] = RecordsTable

\* fetchAllVersions has returned after the snap request alone failed, with
\* HTTP status 404
C5_Witness ==
    /\ fetchResult.kind # "none"
    /\ OnlyFailed("snap")
    /\ req["snap"].reason = "status"

-----------------------------------------------------------------------------
(* fetchAllVersions with the timers running: a timer that is armed fires   *)
(* unless it is cleared, and Promise.all settles once it can; when the     *)
(* server answers, and when a body ends, is up to the network              *)

SpecFetchLive ==
    /\ InitFetch
    /\ [][NextFetch]_vars
    /\ \A p \in FetchPlatforms : WF_vars(FetchTimeout(p))
    /\ WF_vars(FetchSettle)

Settled(p) == req[p].state \in {"resolved", "rejected"}

\* C38: once the five platform metadata requests are issued, every one of
\* them settles, resolved or rejected, as it must to settle within the 30
\* seconds of its timer
C38_EveryRequestSettles ==
    (\A p \in FetchPlatforms : req[p].state = "pending")
        ~> (\A p \in FetchPlatforms : Settled(p))

\* the snap response has arrived with status 200, which cleared the timer,
\* and its body has not ended; the other four requests have resolved and
\* fetchAllVersions has not returned
C38_Witness ==
    /\ req["snap"].state = "receiving"
    /\ \A p \in FetchPlatforms \ {"snap"} : req[p].state = "resolved"
    /\ fetchResult.kind = "none"
    /\ ~ENABLED FetchTimeout("snap")
    /\ ~ENABLED FetchSettle

-----------------------------------------------------------------------------
(* The version store singleton on its own *)

InitStore ==
    /\ machine \in {h \in Hosts : h.platform = "linux" /\ h.containerType = "none"}
    /\ RunIdle
    /\ ProviderIdle
    /\ GemIdle
    /\ BinaryIdle
    /\ MoreIdle
    /\ config = DEFAULT_IDEMPOTENCY_CONFIG

NextStore ==
    \/ \E c \in Calls : GetInstanceCall(c)
    \/ \E c \in Calls : GetInstanceResume(c)

SpecStore == InitStore /\ [][NextStore]_vars

\* C4: once a getInstance() call has failed to initialize, a getInstance()
\* call made later in the process returns null at once and issues no
\* metadata fetch
C4_FailureIsCached ==
    [][\A c \in Calls :
          (initFailed /\ call[c] = "notCalled" /\ call'[c] # "notCalled")
          => (/\ storeFetches' = storeFetches
              /\ call'[c] = "returned"
              /\ result'[c] = 0)]_vars

\* a call made after a failed one, with no other call in flight, has
\* fetched again and returned an initialized store
C4_Witness ==
    /\ initFailed
    /\ \E c, d \in Calls :
          /\ c # d
          /\ call[c] = "returned" /\ result[c] = 0
          /\ objs[c].initializationFailed
          /\ call[d] = "returned" /\ result[d] = d
          /\ objs[d].isInitialized
    /\ storeFetches = 2

\* getProvider(platform) on the object with identity o: ensureInitialized()
\* throws unless the object's isInitialized flag is set
GetProviderThrows(o) == ~objs[o].isInitialized

\* C34: when a getInstance() call returns a store that is not null, the
\* store is initialized at that moment, so getProvider on it does not
\* throw, also when the call started while another call was awaiting the
\* metadata fetch
C34_ReturnedStoreInitialized ==
    [][\A c \in Calls :
          (call[c] # "returned" /\ call'[c] = "returned" /\ result'[c] # 0)
          => objs'[result'[c]].isInitialized]_vars

\* a second call has returned the object of a first call that is still
\* awaiting its fetch
C34_Witness ==
    \E c, d \in Calls :
        /\ c # d
        /\ call[c] = "awaitingFetch"
        /\ call[d] = "returned" /\ result[d] = c
        /\ GetProviderThrows(c)

-----------------------------------------------------------------------------
(* InstallerFactory.createInstaller called on its own with every platform, *)
(* every installation method and every container description, the other    *)
(* settings varying as well                                                *)

Distributions == {"alpine", "ubuntu", "debian", "unknown"}

\* the values of settings.containerInfo: undefined, or a ContainerInfo
ContainerInfos ==
    {NoContainerInfo}
    \cup {[present |-> TRUE, isContainer |-> c,
           type |-> IF c THEN "docker" ELSE "none",
           hasRuby |-> r, hasMetanorma |-> FALSE, distribution |-> d] :
             c \in BOOLEAN, r \in BOOLEAN, d \in Distributions}

FactorySettings(h) ==
    {[GetInputs(raw, h) EXCEPT !.installationMethod = m, !.containerInfo = ci] :
        raw \in {r \in RawInputs : ~GetInputsThrows(r, h)},
        m \in FactoryMethods, ci \in ContainerInfos}

InitFactory ==
    /\ machine \in {h \in Hosts : h.platform \in Platforms}
    /\ pc = "create"
    /\ settings \in FactorySettings(machine)
    /\ storeInst = NoStore
    /\ fetches = 0
    /\ stateFile = AbsentFile
    /\ savedBy = NoSettings
    /\ config = DEFAULT_IDEMPOTENCY_CONFIG
    /\ toolFound = FALSE
    /\ decision = Result(FALSE, "not_installed", FALSE, Null)
    /\ installer = "none"
    /\ cmds = <<>>
    /\ installEnv = NoInstallEnv
    /\ failed = FALSE
    /\ outputs = NoOutputs
    /\ FetchIdle
    /\ StoreIdle
    /\ ProviderIdle
    /\ GemIdle
    /\ BinaryIdle
    /\ MoreIdle

NextFactory == RunCreateInstaller

SpecFactory == InitFactory /\ [][NextFactory]_vars

InContainer(s) == s.containerInfo.present /\ s.containerInfo.isContainer

NativeRule(platform) ==
    CASE platform = "darwin" -> "brew"
      [] platform = "linux" -> "snap"
      [] platform = "win32" -> "choco"

GemRule(s) ==
    IF ~InContainer(s) THEN "gem-native"
    ELSE IF s.containerInfo.distribution = "alpine" THEN "gem-alpine"
    ELSE "gem-ubuntu"

\* the decision table over the four installation methods
DecisionTable(s) ==
    CASE s.installationMethod = "native" -> NativeRule(s.platform)
      [] s.installationMethod = "gem" -> GemRule(s)
      [] s.installationMethod = "binary" -> "binary"
      [] s.installationMethod = "auto" ->
           IF InContainer(s) THEN GemRule(s) ELSE NativeRule(s.platform)

FactoryReturned == pc = "install"

\* C11: for every platform, installation method (native, gem, binary, auto)
\* and container description, createInstaller returns the strategy the
\* decision table names, whatever the other settings are
C11_FactoryFollowsDecisionTable ==
    FactoryReturned
        /\ settings.installationMethod \in {"native", "gem", "binary", "auto"}
    => installer = DecisionTable(settings)

C11_Witness ==
    /\ FactoryReturned
    /\ settings.installationMethod = "binary"
    /\ settings.platform = "linux"
    /\ ~InContainer(settings)
    /\ installer = "snap"

-----------------------------------------------------------------------------
(* A run in an Alpine container with the installation method left at auto  *)

\* the settings of the run are those getInputs builds on this machine from
\* inputs whose installation-method is not set (the default, auto)
MethodLeftAuto ==
    \E raw \in RawInputs :
        /\ raw.installationMethod = ""
        /\ ~GetInputsThrows(raw, machine)
        /\ settings = GetInputs(raw, machine)

AlpineContainerDetected ==
    /\ DetectContainer(machine).isContainer
    /\ DetectContainer(machine).distribution = "alpine"

\* C12: in a container detected with distribution alpine and with the
\* method auto, the run that reaches the factory selects the Alpine gem
\* installer, and the installer of such a run is never another one
C12_AlpineAutoSelectsAlpineGem ==
    /\ [][AlpineContainerDetected /\ MethodLeftAuto /\ pc = "create"
            => installer' = "gem-alpine"]_vars
    /\ [](AlpineContainerDetected /\ MethodLeftAuto /\ installer # "none"
            => installer = "gem-alpine")

C12_Witness ==
    /\ AlpineContainerDetected
    /\ MethodLeftAuto
    /\ pc = "install"
    /\ installer = "gem-alpine"

-----------------------------------------------------------------------------
(* A run whose installation-method input is binary                         *)

\* the settings of the run are those getInputs builds on this machine from
\* inputs whose installation-method is binary
MethodSetBinary ==
    \E raw \in RawInputs :
        /\ raw.installationMethod = "binary"
        /\ ~GetInputsThrows(raw, machine)
        /\ settings = GetInputs(raw, machine)

\* C35: when the installation-method input is binary, the strategy the run
\* selects is the binary-release installer
C35_BinaryMethodSelectsBinary ==
    (MethodSetBinary /\ installer # "none") => installer = "binary"

\* a run with installation-method binary on a Linux machine outside a
\* container has reached the install step with the strategy it selected
C35_Witness ==
    /\ MethodSetBinary
    /\ machine.platform = "linux"
    /\ ~DetectContainer(machine).isContainer
    /\ pc = "install"
    /\ installer = "snap"

-----------------------------------------------------------------------------
(* BinaryProvider.getBestMatch called with the artifacts of one version on *)
(* the hosts the action accepts: detectPlatform rejects every other        *)
(* process.platform before a strategy is created                           *)

\* at most this many artifacts in the version's list
MaxArtifacts == 2

ArtifactNames == {"darwin", "linux", "windows"}

ArtifactArchs == {"arm64", "x86_64", "aarch64"}

Artifacts ==
    {BinaryPlatformArtifact(n, a, v) :
        n \in ArtifactNames, a \in ArtifactArchs, v \in {Undefined, "musl"}}

ArtifactLists == UNION {[1..n -> Artifacts] : n \in 0..MaxArtifacts}

\* the process on machine h: musl is the libc of Alpine
Processes(h) ==
    {[platform |-> h.platform, arch |-> a,
      libc |-> IF h.platform = "linux" /\ h.distribution = "alpine"
               THEN "musl" ELSE "glibc"] : a \in {"x64", "arm64"}}

InitBestMatch ==
    /\ machine \in {h \in Hosts : ~DetectPlatformThrows(h.platform)}
    /\ RunIdle
    /\ config = DEFAULT_IDEMPOTENCY_CONFIG
    /\ proc \in Processes(machine)
    /\ platforms \in ArtifactLists
    /\ bestMatch = Pending
    /\ GemIdle
    /\ BinaryIdle
    /\ MoreIdle

GetBestMatchCall ==
    /\ bestMatch = Pending
    /\ bestMatch' = GetBestMatch(platforms, proc)
    /\ UNCHANGED <<proc, platforms, runVars, fetchVars, storeVars, gemVars, bin, moreVars>>

NextBestMatch == GetBestMatchCall

SpecBestMatch == InitBestMatch /\ [][NextBestMatch]_vars

\* the host as the artifacts describe it
HostOs == CASE proc.platform = "darwin" -> "darwin"
            [] proc.platform = "linux" -> "linux"
            [] proc.platform = "win32" -> "windows"

HostArchs == IF proc.arch = "arm64" THEN {"arm64", "aarch64"}
             ELSE {"x86_64", "amd64"}

HostVariant == IF proc.libc = "musl" THEN "musl" ELSE Undefined

Listed == {platforms[i] : i \in 1..Len(platforms)}

ForHostOs == {p \in Listed : p.name = HostOs}

ForHostArch == {p \in ForHostOs : p.arch \in HostArchs}

\* C13: getBestMatch returns an artifact of the host's OS, architecture and
\* libc variant if the version has one; otherwise one of the host's OS and
\* architecture without variant if it has one; otherwise one of the host's
\* OS if it has one; otherwise no artifact
C13_ThreeTierMatch ==
    bestMatch # Pending =>
        LET tier1 == {p \in ForHostArch : p.variant = HostVariant}
            tier2 == {p \in ForHostArch : p.variant = Undefined}
        IN IF tier1 # {} THEN bestMatch \in tier1
           ELSE IF tier2 # {} THEN bestMatch \in tier2
           ELSE IF ForHostOs # {} THEN bestMatch \in ForHostOs
           ELSE bestMatch = NoArtifact

C13_Witness ==
    /\ proc = [platform |-> "linux", arch |-> "x64", libc |-> "musl"]
    /\ platforms = << BinaryPlatformArtifact("linux", "x86_64", Undefined),
                      BinaryPlatformArtifact("linux", "x86_64", "musl") >>
    /\ bestMatch = BinaryPlatformArtifact("linux", "x86_64", Undefined)

\* C14: getBestMatch never returns an artifact of another OS than the
\* host's; on a darwin/arm64 host with a darwin/arm64 musl artifact as the
\* only darwin entry it returns that artifact, through the third tier
C14_NeverAnotherOs ==
    /\ bestMatch \notin {Pending, NoArtifact} => bestMatch.name = HostOs
    /\ ( /\ bestMatch # Pending
         /\ proc.platform = "darwin" /\ proc.arch = "arm64"
         /\ ForHostOs = {BinaryPlatformArtifact("darwin", "arm64", "musl")} )
       => bestMatch = BinaryPlatformArtifact("darwin", "arm64", "musl")

C14_Witness ==
    /\ proc.platform = "darwin" /\ proc.arch = "arm64"
    /\ platforms = << BinaryPlatformArtifact("linux", "aarch64", Undefined),
                      BinaryPlatformArtifact("darwin", "arm64", "musl") >>
    /\ bestMatch = BinaryPlatformArtifact("darwin", "arm64", "musl")

\* C15: on a Linux host whose process.arch is arm64, getBestMatch returns
\* the linux aarch64 artifact whenever the version has one
C15_LinuxArm64GetsAarch64 ==
    ( /\ bestMatch # Pending
      /\ proc.platform = "linux" /\ proc.arch = "arm64"
      /\ \E p \in Listed : p.name = "linux" /\ p.arch = "aarch64" )
    => bestMatch.name = "linux" /\ bestMatch.arch = "aarch64"

C15_Witness ==
    /\ proc.platform = "linux" /\ proc.arch = "arm64"
    /\ platforms = << BinaryPlatformArtifact("linux", "x86_64", Undefined),
                      BinaryPlatformArtifact("linux", "aarch64", Undefined) >>
    /\ bestMatch = BinaryPlatformArtifact("linux", "x86_64", Undefined)

-----------------------------------------------------------------------------
(* setupGemfile and installGems of a gem strategy called on their own, on  *)
(* every workspace content and with every answer of the lock repository    *)

\* the lock files a workspace can hold: none, one without metanorma-cli,
\* one pinned to a version
Locks == {NoLock} \cup {UserLock(v) : v \in {Null, "1.13.9", "1.14.3"}}

Workspaces ==
    {GemFiles(d, g, l) : d \in BOOLEAN, g \in {"absent", "user"}, l \in Locks}

\* the settings of a gem installation: version 'latest' is what the input
\* helper without the semver check passes on
GemSettings(h) ==
    {[GetInputs(RawDefault, h) EXCEPT
          !.installationMethod = "gem", !.version = v, !.gemfile = g,
          !.bundleUpdate = b, !.usePrebuiltLocks = u] :
        v \in {Null, "1.13.9", "1.14.3", "latest"},
        g \in {Undefined, "ci/Gemfile"},
        b \in BOOLEAN, u \in BOOLEAN}

FetchedContents == {Null, "", "content"}

ResolveAnswers ==
    [available : FetchedContents, gemfileContent : FetchedContents,
     lockContent : FetchedContents, writeFails : {0, 1, 2}]

InitGemfile ==
    /\ machine \in {h \in Hosts : h.platform = "linux"}
    /\ RunIdle
    /\ ProviderIdle
    /\ config = DEFAULT_IDEMPOTENCY_CONFIG
    /\ disk \in Workspaces
    /\ gem = NoGemCall
    /\ BinaryIdle
    /\ MoreIdle

\* a gem strategy is handed its settings
GemBegin ==
    /\ gem.stage = "idle"
    /\ settings = NoSettings
    /\ settings' \in GemSettings(machine)
    /\ gem' = [gem EXCEPT !.stage = "setup", !.lockBefore = disk.lock]
    /\ UNCHANGED <<machine, pc, stateFile, savedBy, config, storeInst, fetches,
                   toolFound, decision, installer, cmds, installEnv, failed,
                   outputs, disk>>
    /\ UNCHANGED <<fetchVars, storeVars, providerVars, bin, moreVars>>

SetupGemfileCall ==
    /\ gem.stage = "setup"
    /\ \E env \in ResolveAnswers :
         LET r == ResolveGemfile(settings, disk, env)
         IN /\ gem' = [gem EXCEPT !.stage = IF r.threw THEN "threw"
                                            ELSE "resolved",
                                  !.resolution = r]
            /\ disk' = r.files
    /\ UNCHANGED <<runVars, fetchVars, storeVars, providerVars, bin, moreVars>>

\* installGems; a non-zero exit of the bundle command throws
InstallGemsCall ==
    /\ gem.stage = "resolved"
    /\ \E exitCode \in {0, 1} :
         gem' = [gem EXCEPT !.stage = IF exitCode = 0 THEN "installed"
                                      ELSE "threw",
                            !.bundle = <<BundleCommand(settings)>>]
    /\ UNCHANGED <<disk, runVars, fetchVars, storeVars, providerVars, bin, moreVars>>

NextGemfile ==
    \/ GemBegin
    \/ SetupGemfileCall
    \/ InstallGemsCall

SpecGemfile == InitGemfile /\ [][NextGemfile]_vars

SetupReturned == gem.stage \in {"resolved", "installed"}

SetupDone == gem.stage \in {"resolved", "installed", "threw"}
                 /\ gem.resolution.mode # "none"

\* C16: with a custom Gemfile path, Gemfile resolution returns that path,
\* probes no file, fetches nothing and writes nothing
C16_CustomGemfileOnly ==
    settings.gemfile # Undefined /\ gem.stage \notin {"idle", "setup"}
    => /\ SetupReturned \/ gem.bundle # <<>>
       /\ gem.resolution.path = settings.gemfile
       /\ gem.resolution.probes = <<>>
       /\ gem.resolution.fetched = <<>>
       /\ gem.resolution.writes = <<>>
       /\ disk.gemfile \in {"absent", "user"}
       /\ disk.lock = gem.lockBefore

C16_Witness ==
    /\ settings.gemfile = "ci/Gemfile"
    /\ gem.stage = "resolved"
    /\ gem.resolution.path = "ci/Gemfile"
    /\ disk.gemfile = "user"
    /\ gem.lockBefore = UserLock("1.13.9")
    /\ settings.version = "1.14.3"

\* the workspace held a lock pinned to 1.14.3, version 1.14.3 is requested
\* and use-prebuilt-locks is true
PinnedLockCase ==
    /\ gem.lockBefore = UserLock("1.14.3")
    /\ settings.version = "1.14.3"
    /\ settings.usePrebuiltLocks
    /\ settings.gemfile = Undefined

\* C17: with a workspace lock pinned to the requested version 1.14.3 and
\* use-prebuilt-locks true, Gemfile resolution returns without throwing,
\* leaves the lock as it was and fetches nothing
C17_PinnedLockReused ==
    PinnedLockCase /\ gem.stage \notin {"idle", "setup"}
    => /\ gem.resolution.mode # "none" /\ ~gem.resolution.threw
       /\ gem.resolution.fetched = <<>>
       /\ disk.lock = UserLock("1.14.3")
       /\ WorkspaceLock \notin
              {gem.resolution.writes[i] : i \in 1..Len(gem.resolution.writes)}

C17_Witness ==
    /\ PinnedLockCase
    /\ gem.stage = "resolved"
    /\ gem.resolution.mode = "lock"
    /\ disk = GemFiles(FALSE, "absent", UserLock("1.14.3"))

\* C18: whenever Gemfile resolution has put the pre-built lock in the place
\* of a lock the workspace held, the replacement warning was shown by it
C18_ReplacementWarned ==
    gem.lockBefore.exists /\ disk.lock.origin = "prebuilt"
    => gem.resolution.warned

C18_Witness ==
    /\ gem.lockBefore = UserLock("1.13.9")
    /\ settings.version = "1.14.3"
    /\ disk.lock = PrebuiltLock("1.14.3")
    /\ gem.resolution.warned
    /\ gem.stage = "installed"

\* C19: installGems runs exactly one bundle command: bundle update when
\* the version is latest, whatever the flags; bundle update --except
\* metanorma-cli when the version is not latest and bundle-update is set;
\* bundle install otherwise
C19_BundleCommandByVersionFirst ==
    gem.bundle # <<>>
    => gem.bundle =
         << IF settings.version = "latest" THEN <<"bundle", "update">>
            ELSE IF settings.bundleUpdate
            THEN <<"bundle", "update", "--except", "metanorma-cli">>
            ELSE <<"bundle", "install">> >>

C19_Witness ==
    /\ settings.version = "latest"
    /\ settings.bundleUpdate
    /\ gem.stage = "installed"
    /\ gem.bundle = << <<"bundle", "update", "--except", "metanorma-cli">> >>

\* C36: whenever Gemfile resolution, with no custom path supplied, has
\* returned the path of the workspace Gemfile, a Gemfile exists at that
\* path, before and after the bundle command
C36_ReturnedGemfileExists ==
    (/\ settings.gemfile = Undefined
     /\ SetupReturned
     /\ gem.resolution.path = WorkspaceGemfile)
    => disk.gemfile # "absent"

\* the workspace held only a Gemfile.lock pinned to the requested version,
\* resolution returned the workspace Gemfile path and the bundle command
\* has run
C36_Witness ==
    /\ PinnedLockCase
    /\ gem.stage = "installed"
    /\ gem.resolution.mode = "lock"
    /\ gem.resolution.path = WorkspaceGemfile
    /\ gem.resolution.writes = <<>>
    /\ gem.bundle # <<>>

-----------------------------------------------------------------------------
(* BinaryInstaller.install called on its own against every binary table:   *)
(* the metadata lists the releases oldest first or, as the fixtures of the *)
(* suites do, newest first                                                 *)

\* at most this many versions in the binary table
MaxVersions == 12

OldestFirst(n) == [i \in 1..n |-> i]

NewestFirst(n) == [i \in 1..n |-> n + 1 - i]

BinaryTables ==
    {OldestFirst(n) : n \in 0..MaxVersions}
    \cup {NewestFirst(n) : n \in 0..MaxVersions}

\* metadata.latest_version of a table: the newest release, or none
LatestOf(table) ==
    IF Len(table) = 0 THEN 0
    ELSE CHOOSE v \in {table[i] : i \in 1..Len(table)} :
             \A i \in 1..Len(table) : table[i] <= v

InitBinary ==
    /\ machine \in {h \in Hosts : h.platform = "linux"}
    /\ RunIdle
    /\ ProviderIdle
    /\ GemIdle
    /\ MoreIdle
    /\ config = DEFAULT_IDEMPOTENCY_CONFIG
    /\ \E hasStore \in BOOLEAN, table \in BinaryTables,
          version \in 0..(MaxVersions + 1) :
         bin = [NoBinaryCall EXCEPT
                   !.hasStore = hasStore,
                   !.table = IF hasStore THEN table ELSE <<>>,
                   !.latest = IF hasStore THEN LatestOf(table) ELSE 0,
                   !.version = version]

BinaryInstallCall ==
    /\ bin.outcome.stage = "idle"
    /\ bin' = [bin EXCEPT !.outcome =
                  ResolveBinaryVersion(bin.hasStore, bin.table, bin.latest,
                                       bin.version)]
    /\ UNCHANGED <<runVars, fetchVars, storeVars, providerVars, gemVars, moreVars>>

NextBinary == BinaryInstallCall

SpecBinary == InitBinary /\ [][NextBinary]_vars

InTable == {bin.table[i] : i \in 1..Len(bin.table)}

\* the n most recent versions of the table
MostRecent(n) ==
    {v \in InTable : Cardinality({w \in InTable : w > v}) < n}

ListedVersions == {bin.outcome.listed[i] : i \in 1..Len(bin.outcome.listed)}

\* the store answered and the version resolved is not in the table
ResolvedNotInTable ==
    /\ bin.outcome.stage # "idle"
    /\ bin.hasStore
    /\ bin.outcome.resolved # 0
    /\ bin.outcome.resolved \notin InTable

\* C20: when the resolved binary version is not in the provider's table,
\* install fails with the error that lists the 10 most recent versions of
\* the table
C20_ListsTenMostRecent ==
    ResolvedNotInTable
    => /\ bin.outcome.stage = "threw"
       /\ bin.outcome.error = "unavailable"
       /\ ListedVersions = MostRecent(ListLimit)

C20_Witness ==
    /\ ResolvedNotInTable
    /\ bin.table = NewestFirst(ListLimit + 1)
    /\ bin.outcome.error = "unavailable"
    /\ bin.outcome.listed = NewestFirst(ListLimit)

-----------------------------------------------------------------------------
(* BinaryInstaller.install from the platform match on, and the tool cache *)

MaxInstalls == 2

ToolVersions == 1..2

ToolEntries == {<<v, a>> : v \in ToolVersions, a \in ArtifactArchs}

\* the artifacts of one release: the platforms of the fixture
ReleaseArtifacts ==
    {BinaryPlatformArtifact("darwin", "arm64", Undefined),
     BinaryPlatformArtifact("linux", "x86_64", Undefined),
     BinaryPlatformArtifact("linux", "aarch64", Undefined),
     BinaryPlatformArtifact("windows", "x86_64", Undefined)}

ReleaseLists == UNION {[1..n -> ReleaseArtifacts] : n \in 0..MaxArtifacts}

ToolAnswers ==
    [download : {"ok", "throws"}, extract : {"ok", "throws", "no-binary"},
     verifyExit : {0, 1}]

InitTool ==
    /\ machine \in {h \in Hosts : ~DetectPlatformThrows(h.platform)}
    /\ RunIdle
    /\ GemIdle
    /\ BinaryIdle
    /\ config = DEFAULT_IDEMPOTENCY_CONFIG
    /\ proc \in Processes(machine)
    /\ platforms \in ReleaseLists
    /\ bestMatch = Pending
    /\ ProvIdle
    /\ SubIdle
    /\ PostIdle
    /\ CtrIdle
    /\ PriorIdle
    /\ \E cache \in {{}} \cup {{e} : e \in ToolEntries} :
         tool = [NoToolCall EXCEPT !.cache = cache]

\* one install of a strategy object, on the tool cache earlier installs left
ToolInstallCall ==
    /\ tool.calls < MaxInstalls
    /\ ~tool.cleaned
    /\ \E resolved \in ToolVersions, env \in ToolAnswers :
         LET out == InstallFromArtifact(tool.cache, resolved, platforms, proc,
                                        env)
             made == {<<tool.calls + 1, out.tempFiles[i]>> :
                         i \in 1..Len(out.tempFiles)}
         IN /\ tool' = [cache |-> out.cache, before |-> tool.cache,
                        resolved |-> resolved, calls |-> tool.calls + 1,
                        tempFiles |-> out.tempFiles,
                        temp |-> tool.temp \cup made, cleaned |-> FALSE,
                        outcome |-> out]
            /\ bestMatch' = out.artifact
    /\ UNCHANGED <<proc, platforms, runVars, fetchVars, storeVars, gemVars, bin,
                   prov, sub, post, ctr, prior>>

\* the post phase: a new process, in which cleanup() of main.ts builds its
\* installer anew and calls its cleanup(). At best that installer is a new
\* BinaryInstaller, whose tempFiles list is empty
ToolPostCleanup ==
    /\ tool.calls > 0
    /\ ~tool.cleaned
    /\ tool' = [tool EXCEPT !.temp = BinaryCleanup(<<>>, tool.temp),
                            !.cleaned = TRUE]
    /\ UNCHANGED <<proc, platforms, bestMatch, runVars, fetchVars, storeVars,
                   gemVars, bin, prov, sub, post, ctr, prior>>

NextTool ==
    \/ ToolInstallCall
    \/ ToolPostCleanup

SpecTool == InitTool /\ [][NextTool]_vars

OpsOf(o) == {o.ops[i] : i \in 1..Len(o.ops)}

\* the call found the tool cache holding its version and architecture
CacheHeld ==
    /\ tool.calls > 0
    /\ tool.outcome.artifact # NoArtifact
    /\ <<tool.resolved, tool.outcome.artifact.arch>> \in tool.before

\* C21: when the tool cache already holds an entry for (metanorma, resolved
\* version, artifact architecture), install performs no download and no
\* extraction
C21_CacheHitSkipsDownload ==
    CacheHeld
    => /\ OpsOf(tool.outcome) \cap {"downloadTool", "extract", "cacheFile"} = {}
       /\ tool.cache = tool.before
       /\ tool.tempFiles = <<>>

\* a second install of the version the first one cached
C21_Witness ==
    /\ CacheHeld
    /\ tool.calls = 2
    /\ tool.outcome.ops = <<"getBestMatch", "find", "addToPath",
                            "verifyInstallation">>
    /\ ~tool.outcome.threw

\* C39: after the cleanup of the post phase no temporary download or
\* extraction artifact that the binary strategy made in the main phase is
\* left on disk
C39_PostRemovesTempFiles == tool.cleaned => tool.temp = {}

\* the post phase has run after an install that downloaded and extracted
\* a release and put it in the tool cache
C39_Witness ==
    /\ tool.cleaned
    /\ tool.calls = 1
    /\ ~tool.outcome.threw
    /\ "cacheFile" \in OpsOf(tool.outcome)
    /\ tool.tempFiles = <<"download", "extracted">>
    /\ tool.temp = {<<1, "download">>, <<1, "extracted">>}

-----------------------------------------------------------------------------
(* The idempotent output of a run *)

\* the run has set its outputs: it skipped, or it installed
OutputsSet == outputs.set

\* C22: the idempotent output is true exactly when the run detected an
\* existing installation and skipped installing, and false when the run
\* performed a new installation
C22_IdempotentOutputMeansSkipped ==
    OutputsSet
    => outputs.idempotent = (IF decision.shouldSkip THEN "true" ELSE "false")

\* a run that installed, found the version of the new installation and
\* set its outputs
C22_Witness ==
    /\ OutputsSet
    /\ ~decision.shouldSkip
    /\ installEnv.used
    /\ ~failed
    /\ outputs.version = "1.13.9"

-----------------------------------------------------------------------------
(* Providers built from fetched metadata *)

MaxRecords == 2

RecordVersions == {"1.13.9", "1.14.3"}

\* the records a platform file can hold: snap records carry a revision and
\* an arch, the records of the other platforms are told apart by version
YamlRecords(platform) ==
    IF platform = "snap"
    THEN {SnapRecord(v, r, "stable", a) :
             v \in RecordVersions, r \in {276, 277},
             a \in {"amd64", "arm64", ""}}
    ELSE {SnapRecord(v, 0, "", "") : v \in RecordVersions}

YamlDocuments ==
    {YamlDocument(p, l, list) :
        p \in FetchPlatforms, l \in RecordVersions \cup {Undefined},
        list \in UNION {[1..n -> YamlRecords("snap") \cup YamlRecords("gemfile")] :
                           n \in 0..MaxRecords}}

InitProvider ==
    /\ machine \in {h \in Hosts : h.platform = "linux" /\ h.containerType = "none"}
    /\ RunIdle
    /\ ProviderIdle
    /\ GemIdle
    /\ BinaryIdle
    /\ ToolIdle
    /\ SubIdle
    /\ PostIdle
    /\ CtrIdle
    /\ PriorIdle
    /\ config = DEFAULT_IDEMPOTENCY_CONFIG
    /\ \E doc \in YamlDocuments :
         /\ \A i \in 1..Len(doc.versions) :
                doc.versions[i] \in YamlRecords(doc.platform)
         /\ prov = [NoProvider EXCEPT !.doc = doc]

\* the fetcher transforms the document and the store constructs the provider
ProviderBuild ==
    /\ ~prov.built
    /\ prov' = [prov EXCEPT !.built = TRUE, !.provider = BuildProvider(prov.doc)]
    /\ UNCHANGED <<runVars, fetchVars, storeVars, providerVars, gemVars, bin, tool,
                   sub, post, ctr, prior>>

\* SnapInstaller.getRevisionForVersion on a process of architecture nodeArch
ProviderGetRevision ==
    /\ prov.built
    /\ prov.provider.platform = "snap"
    /\ ~prov.query.asked
    /\ \E version \in RecordVersions, nodeArch \in {"x64", "arm64"} :
         prov' = [prov EXCEPT !.query =
                     [asked |-> TRUE, version |-> version, nodeArch |-> nodeArch,
                      answer |-> GetRevisionForVersion(
                                     [present |-> TRUE,
                                      snap |-> prov.provider.versions],
                                     version, nodeArch)]]
    /\ UNCHANGED <<runVars, fetchVars, storeVars, providerVars, gemVars, bin, tool,
                   sub, post, ctr, prior>>

NextProvider == ProviderBuild \/ ProviderGetRevision

SpecProvider == InitProvider /\ [][NextProvider]_vars

ProviderTable == prov.provider.versions

\* C23: for every platform provider whose version table is non-empty,
\* getLatest() returns a version for which isAvailable is true
C23_LatestIsAvailable ==
    (prov.built /\ Len(ProviderTable) > 0)
    => IsAvailable(ProviderTable, GetLatest(prov.provider))

C23_Witness ==
    /\ prov.built
    /\ Len(ProviderTable) = 2
    /\ prov.doc.latest_version = "1.14.3"
    /\ IsAvailable(ProviderTable, GetLatest(prov.provider))

\* the key that tells the records of a table apart
RecordKey(platform, rec) ==
    IF platform = "snap" THEN <<rec.version, Architecture(rec)>>
    ELSE <<rec.version>>

\* C24: in every provider built from fetched metadata, no two records of
\* the snap table share the same (version, architecture) and no two records
\* of any other platform's table share the same version
C24_RecordsUnique ==
    prov.built
    => \A i, j \in 1..Len(ProviderTable) :
          RecordKey(prov.provider.platform, ProviderTable[i])
              = RecordKey(prov.provider.platform, ProviderTable[j])
          => i = j

C24_Witness ==
    /\ prov.built
    /\ prov.provider.platform = "snap"
    /\ Len(ProviderTable) = 2
    /\ ProviderTable[1].version = ProviderTable[2].version
    /\ Architecture(ProviderTable[1]) # Architecture(ProviderTable[2])

\* the revisions of the records of a version and a snap architecture
RevisionsOf(version, arch) ==
    {ProviderTable[i].revision :
        i \in {k \in 1..Len(ProviderTable) :
                  /\ ProviderTable[k].version = version
                  /\ Architecture(ProviderTable[k]) = arch}}

\* the table holds the version asked for on both architectures
OnBothArchitectures ==
    /\ prov.query.asked
    /\ RevisionsOf(prov.query.version, "amd64") # {}
    /\ RevisionsOf(prov.query.version, "arm64") # {}

\* C25: when the snap table holds records for the same version on both
\* amd64 and arm64, resolving that version for arm64 yields the arm64
\* record's revision and resolving it for amd64 yields the amd64 record's
C25_RevisionOfOwnArchitecture ==
    OnBothArchitectures
    => /\ prov.query.answer.found
       /\ prov.query.answer.revision \in
              RevisionsOf(prov.query.version,
                          IF prov.query.nodeArch = "arm64" THEN "arm64"
                          ELSE "amd64")

C25_Witness ==
    /\ OnBothArchitectures
    /\ prov.query.nodeArch = "arm64"
    /\ RevisionsOf(prov.query.version, "amd64") = {276}
    /\ prov.query.answer.revision = 277

-----------------------------------------------------------------------------
(* The exit codes of the subprocesses an install runs *)

Strategies ==
    {"choco", "brew", "snap", "native-gem", "gem-ubuntu", "gem-alpine"}

\* the hosts a strategy is created on
StrategyHosts(strategy) ==
    {h \in Hosts :
        CASE strategy = "choco" -> h.platform = "win32"
          [] strategy = "brew" -> h.platform = "darwin"
          [] strategy = "snap" -> h.platform = "linux" /\ h.containerType = "none"
          [] strategy = "gem-ubuntu" ->
               h.platform = "linux" /\ h.distribution # "alpine"
          [] strategy = "gem-alpine" ->
               h.platform = "linux" /\ h.distribution = "alpine"
          [] OTHER -> ~DetectPlatformThrows(h.platform)}

InitSubprocess ==
    /\ RunIdle
    /\ ProviderIdle
    /\ GemIdle
    /\ BinaryIdle
    /\ ToolIdle
    /\ ProvIdle
    /\ PostIdle
    /\ CtrIdle
    /\ PriorIdle
    /\ config = DEFAULT_IDEMPOTENCY_CONFIG
    /\ \E strategy \in Strategies, pinned \in BOOLEAN :
         /\ machine \in StrategyHosts(strategy)
         /\ sub = [NoSubprocess EXCEPT !.strategy = strategy,
                                       !.pinned = pinned]

\* install runs its next command; the environment answers an exit code,
\* the output and, where install asks, whether metanorma is on the PATH
SubprocessRun ==
    /\ ~sub.threw
    /\ Len(sub.ran) < Len(InstallCommands(sub.strategy, machine, sub.pinned))
    /\ LET command == InstallCommands(sub.strategy, machine,
                                      sub.pinned)[Len(sub.ran) + 1] IN
       \E exit \in {0, 1}, matched \in BOOLEAN, found \in BOOLEAN :
         /\ matched => command.check = "probe"
         /\ found => (command.check = "probe" /\ exit # 0)
         /\ sub' = [sub EXCEPT
                      !.ran = Append(@, [command |-> command, exit |-> exit,
                                         matched |-> matched, found |-> found]),
                      !.threw = StepThrows(command, exit, matched, found)]
    /\ UNCHANGED <<runVars, fetchVars, storeVars, providerVars, gemVars, bin, tool,
                   prov, post, ctr, prior>>

NextSubprocess == SubprocessRun

SpecSubprocess == InitSubprocess /\ [][NextSubprocess]_vars

\* the last command install ran
LastRun == sub.ran[Len(sub.ran)]

\* the Chocolatey install command has just exited non-zero
ChocoInstallFailed ==
    /\ sub.strategy = "choco"
    /\ Len(sub.ran) = 2
    /\ LastRun.exit # 0

\* C26: a non-zero exit of the Chocolatey install command is ignored only
\* when the command's output matched the known benign pattern; a non-zero
\* exit whose output does not match the pattern fails the run
C26_ChocoIgnoresOnlyOnPattern ==
    ChocoInstallFailed => (sub.threw <=> ~LastRun.matched)

C26_Witness ==
    /\ ChocoInstallFailed
    /\ LastRun.matched
    /\ LastRun.found
    /\ ~sub.threw

\* install of a gem-based strategy has looked for Ruby and not found it
RubyAbsent ==
    /\ GemBased(sub.strategy)
    /\ Len(sub.ran) > 0
    /\ sub.ran[1].command = RubyCommand
    /\ sub.ran[1].exit # 0

\* C31: if Ruby is absent, install of every gem-based strategy fails with
\* the remediation error, and no package-manager, gem or bundle command
\* has been executed when it fails
C31_RubyAbsentFailsFirst ==
    /\ (GemBased(sub.strategy) /\ Len(sub.ran) > 0)
          => sub.ran[1].command = RubyCommand
    /\ RubyAbsent => (sub.threw /\ Len(sub.ran) = 1)

C31_Witness ==
    /\ RubyAbsent
    /\ sub.strategy = "gem-alpine"
    /\ sub.threw

\* a package-manager command has exited non-zero
PackageManagerFailed ==
    /\ Len(sub.ran) > 0
    /\ LastRun.command.pm
    /\ LastRun.exit # 0

\* C27: every package-manager subprocess that exits non-zero fails the
\* run, unless its failure is on the explicit allow-list of known-benign
\* patterns
C27_NonZeroExitIsFatal ==
    PackageManagerFailed
    => \/ sub.threw
       \/ LastRun.command.cmd = "choco install metanorma" /\ LastRun.matched

C27_Witness ==
    /\ PackageManagerFailed
    /\ LastRun.command.cmd = "apt-get install inkscape"
    /\ sub.threw

-----------------------------------------------------------------------------------------------------------------------------------------------------
(* The post-action process *)

InitPost ==
    /\ machine \in Hosts
    /\ RunIdle
    /\ ProviderIdle
    /\ GemIdle
    /\ BinaryIdle
    /\ ToolIdle
    /\ ProvIdle
    /\ SubIdle
    /\ post = NoPost
    /\ CtrIdle
    /\ PriorIdle
    /\ config = DEFAULT_IDEMPOTENCY_CONFIG

\* the main phase of the job leaves its state file
PostLeaveStateFile ==
    /\ ~post.finished
    /\ stateFile = AbsentFile
    /\ \E raw \in RawInputs :
         /\ ~GetInputsThrows(raw, machine)
         /\ stateFile' = SavedFile(GetInputs(raw, machine))
         /\ savedBy' = GetInputs(raw, machine)
    /\ UNCHANGED <<machine, pc, config, storeInst, fetches, settings, toolFound,
                   decision, installer, cmds, installEnv, failed, outputs>>
    /\ UNCHANGED <<fetchVars, storeVars, unitVars>>

\* the post-action process of the job runs cleanup()
PostCleanup ==
    /\ ~post.finished
    /\ \E raw \in RawInputs, throws \in BOOLEAN, unlinked \in BOOLEAN :
         LET r == Cleanup(raw, machine, stateFile, throws, unlinked)
         IN /\ stateFile' = IF r.cleared THEN AbsentFile ELSE stateFile
            /\ savedBy' = IF r.cleared THEN NoSettings ELSE savedBy
            /\ post' = [finished |-> TRUE, cleanup |-> r.cleanup,
                        hadFile |-> stateFile.kind # "absent"]
    /\ UNCHANGED <<machine, pc, config, storeInst, fetches, settings, toolFound,
                   decision, installer, cmds, installEnv, failed, outputs>>
    /\ UNCHANGED <<fetchVars, storeVars, providerVars, gemVars, bin, tool, prov,
                   sub, ctr, prior>>

NextPost == PostLeaveStateFile \/ PostCleanup

SpecPost == InitPost /\ [][NextPost]_vars

\* C28: cleanup() of every strategy returns without throwing, whatever
\* failures occur in the operations it performs; failures are only logged
C28_CleanupNeverThrows == post.cleanup # "threw"

\* the post-action process called cleanup() of a strategy and it returned
C28_Witness ==
    /\ post.finished
    /\ post.cleanup = "returned"

\* C29: after the post-action phase of a run has finished, the persisted
\* state file no longer exists
C29_PostRemovesStateFile == post.finished => stateFile.kind = "absent"

\* the post-action process found a state file and has removed it
C29_Witness ==
    /\ post.finished
    /\ post.hadFile
    /\ post.cleanup = "returned"
    /\ stateFile = AbsentFile

-----------------------------------------------------------------------------
(* detectContainer under failing probes *)

Accesses == {"ok", "absent", "error"}

ProbeAnswerSets ==
    [dockerenv : Accesses, cgroup : Accesses,
     cgroupRead : {"docker", "podman", "lxc", "other", "error"},
     alpineRelease : Accesses, osRelease : Accesses,
     osReleaseRead : {"ubuntu", "debian", "other", "error"},
     debianVersion : Accesses, ruby : {"0", "1", "error"},
     metanorma : {"0", "1", "error"}]

InitDetect ==
    /\ machine \in {h \in Hosts : ~DetectPlatformThrows(h.platform)}
    /\ RunIdle
    /\ ProviderIdle
    /\ GemIdle
    /\ BinaryIdle
    /\ ToolIdle
    /\ ProvIdle
    /\ SubIdle
    /\ PostIdle
    /\ PriorIdle
    /\ config = DEFAULT_IDEMPOTENCY_CONFIG
    /\ \E a \in ProbeAnswerSets :
         \* a file that cannot be accessed is not read
         /\ a.cgroup # "ok" => a.cgroupRead = "other"
         /\ a.osRelease # "ok" => a.osReleaseRead = "other"
         /\ ctr = [NoDetection EXCEPT !.platform = machine.platform,
                                      !.answers = a]

DetectContainerCall ==
    /\ ~ctr.called
    /\ LET r == DetectContainerProbed(ctr.platform, ctr.answers)
       IN ctr' = [ctr EXCEPT !.called = TRUE, !.threw = r.threw,
                             !.info = r.info]
    /\ UNCHANGED <<runVars, fetchVars, storeVars, providerVars, gemVars, bin, tool,
                   prov, sub, post, prior>>

NextDetect == DetectContainerCall

SpecDetect == InitDetect /\ [][NextDetect]_vars

\* the answers with every failed probe replaced by the answer of an absent
\* file or command
AsAbsent(a) ==
    LET Access(x) == IF x = "error" THEN "absent" ELSE x
        Exit(x) == IF x = "error" THEN "1" ELSE x
    IN [dockerenv |-> Access(a.dockerenv),
        cgroup |-> IF a.cgroupRead = "error" THEN "absent" ELSE Access(a.cgroup),
        cgroupRead |-> IF a.cgroupRead = "error" THEN "other" ELSE a.cgroupRead,
        alpineRelease |-> Access(a.alpineRelease),
        osRelease |-> IF a.osReleaseRead = "error" THEN "absent"
                      ELSE Access(a.osRelease),
        osReleaseRead |-> IF a.osReleaseRead = "error" THEN "other"
                          ELSE a.osReleaseRead,
        debianVersion |-> Access(a.debianVersion),
        ruby |-> Exit(a.ruby),
        metanorma |-> Exit(a.metanorma)]

\* what a host without probe failures answers
FaultFree(a) ==
    /\ \A f \in {"dockerenv", "cgroup", "cgroupRead", "alpineRelease",
                  "osRelease", "osReleaseRead", "debianVersion", "ruby",
                  "metanorma"} : a[f] # "error"

\* the ContainerInfo of a host on which the answers are a
InfoOf(platform, a) ==
    [present |-> TRUE,
     isContainer |-> DetectContainerType(a) # "none",
     type |-> DetectContainerType(a),
     hasRuby |-> a.ruby = "0",
     hasMetanorma |-> a.metanorma = "0",
     distribution |-> IF platform = "linux" THEN DetectDistribution(a)
                      ELSE "unknown"]

\* C30: detectContainer returns a ContainerInfo for every combination of
\* probe failures: an I/O error in any file-exists, file-read or
\* command-exists probe is treated as absent and never propagates to the
\* caller
C30_ProbeFailuresAreAbsent ==
    ctr.called
    => /\ ~ctr.threw
       /\ FaultFree(AsAbsent(ctr.answers))
       /\ ctr.info = InfoOf(ctr.platform, AsAbsent(ctr.answers))

\* a Linux host where the read of /etc/os-release fails and
\* /etc/debian_version is there
C30_Witness ==
    /\ ctr.called
    /\ ctr.platform = "linux"
    /\ ctr.answers.alpineRelease = "error"
    /\ ctr.answers.osRelease = "ok"
    /\ ctr.answers.osReleaseRead = "error"
    /\ ctr.answers.debianVersion = "ok"
    /\ ctr.answers.ruby = "error"
    /\ ctr.info.distribution = "debian"
    /\ ~ctr.info.hasRuby

-----------------------------------------------------------------------------
(* The state file and failed installations *)

\* C32: the state file is written only after the strategy's install has
\* completed successfully: a run whose installation fails writes no state
C32_StateWrittenAfterSuccess ==
    [][(pc # "idle" /\ stateFile' # stateFile)
          => (pc = "save" /\ installEnv.used /\ ~failed)]_vars

\* a run has installed and has written its state
C32_Witness ==
    /\ pc = "done"
    /\ installEnv.used
    /\ ~failed
    /\ stateFile = SavedFile(settings)
    /\ savedBy = settings

\* the run under way has taken its decision, and the installation attempt
\* of the run before it failed
DecidedAfterFailure ==
    /\ prior = "install-failed"
    /\ decision # NoDecision

\* C33: after a run whose installation attempt failed, the next run in the
\* same workspace does not skip installation, whatever configuration it is
\* given
C33_NoSkipAfterFailure == DecidedAfterFailure => ~decision.shouldSkip

C33_Witness ==
    /\ DecidedAfterFailure
    /\ stateFile = AbsentFile
    /\ toolFound
    /\ ~decision.shouldSkip

-----------------------------------------------------------------------------
(* SnapProvider.getLatestForChannel over snap tables whose versions are    *)
(* strings of characters, in channels stable and edge                      *)

\* at most this many records in the snap table
MaxChannelRecords == 2

ChannelVersions ==
    {<<"1", ".", "9", ".", "0">>,
     <<"1", ".", "1", "0", ".", "0">>,
     <<"1", ".", "1", "3", ".", "9">>}

SnapChannels == {"stable", "edge"}

ChannelRecords ==
    {SnapRecord(v, 276, c, "amd64") : v \in ChannelVersions, c \in SnapChannels}

ChannelTables == UNION {[1..n -> ChannelRecords] : n \in 0..MaxChannelRecords}

InitChannel ==
    /\ machine \in {h \in Hosts : h.platform = "linux" /\ h.containerType = "none"}
    /\ RunIdle
    /\ ProviderIdle
    /\ GemIdle
    /\ BinaryIdle
    /\ ToolIdle
    /\ SubIdle
    /\ PostIdle
    /\ CtrIdle
    /\ PriorIdle
    /\ config = DEFAULT_IDEMPOTENCY_CONFIG
    /\ \E table \in ChannelTables :
         prov = [NoProvider EXCEPT !.doc = YamlDocument("snap", Undefined, table)]

ProviderGetLatestForChannel ==
    /\ prov.built
    /\ ~prov.latestFor.asked
    /\ \E channel \in SnapChannels :
         prov' = [prov EXCEPT !.latestFor =
                     [asked |-> TRUE, channel |-> channel,
                      answer |-> GetLatestForChannel(prov.provider.versions,
                                                     channel)]]
    /\ UNCHANGED <<runVars, fetchVars, storeVars, providerVars, gemVars, bin, tool,
                   sub, post, ctr, prior>>

NextChannel == ProviderBuild \/ ProviderGetLatestForChannel

SpecChannel == InitChannel /\ [][NextChannel]_vars

\* the number a run of digits denotes
RECURSIVE NumberOf(_)
NumberOf(digits) ==
    IF digits = <<>> THEN 0
    ELSE 10 * NumberOf(SubSeq(digits, 1, Len(digits) - 1))
         + (CodeUnit(digits[Len(digits)]) - CodeUnit("0"))

\* the numbers of a version string, split at its dots
RECURSIVE SemverParts(_)
SemverParts(version) ==
    LET dots == {i \in 1..Len(version) : version[i] = "."}
    IN IF dots = {} THEN <<NumberOf(version)>>
       ELSE LET d == CHOOSE i \in dots : \A j \in dots : i <= j
            IN <<NumberOf(SubSeq(version, 1, d - 1))>>
               \o SemverParts(SubSeq(version, d + 1, Len(version)))

\* a is higher than b in semantic version order (major, minor, patch)
SemverGreater(a, b) ==
    LET x == SemverParts(a)
        y == SemverParts(b)
    IN \E i \in 1..3 :
          /\ x[i] > y[i]
          /\ \A j \in 1..(i - 1) : x[j] = y[j]

\* the versions of the records of the channel asked for
VersionsOfChannel ==
    {ProviderTable[i].version :
        i \in {k \in 1..Len(ProviderTable) :
                  ProviderTable[k].channel = prov.latestFor.channel}}

\* C40: getLatestForChannel(channel) returns the highest version, by
\* semantic version order, among the snap records of that channel
C40_LatestForChannelIsSemverHighest ==
    (prov.latestFor.asked /\ VersionsOfChannel # {})
    => /\ prov.latestFor.answer \in VersionsOfChannel
       /\ \A v \in VersionsOfChannel :
              ~SemverGreater(v, prov.latestFor.answer)

\* the stable channel holds 1.9.0 and 1.10.0 and was asked for
C40_Witness ==
    /\ prov.latestFor.asked
    /\ prov.latestFor.channel = "stable"
    /\ VersionsOfChannel = {<<"1", ".", "9", ".", "0">>,
                            <<"1", ".", "1", "0", ".", "0">>}
    /\ prov.latestFor.answer = <<"1", ".", "9", ".", "0">>

====
